---------------------------- MODULE Spec2Model ----------------------------
(***************************************************************************)
(* Model of the LangGraph workflow orchestration core of the               *)
(* LLM-Disability-Dashboard backend: the response cache (services/cache.py), *)
(* the model invoker (services/llm_client.py), the session-state builder,  *)
(* the eight-step chain (services/orchestrator.py) and the workflow entry  *)
(* points (services/langgraph_service.py).                                 *)
(*                                                                         *)
(* Two specifications share the variables:                                 *)
(*   Spec      - one request served by a freshly constructed process       *)
(*   SpecCache - an LLMCache driven by arbitrary get/set/clear calls       *)
(***************************************************************************)
EXTENDS Integers, Sequences, FiniteSets, TLC

VARIABLES
    \* ---- LLMCache (cache.py) ----
    store,          \* OrderedDict _store: sequence of entries, least recent first
    now,            \* time.time()
    ttl_seconds,    \* LLMCache.ttl_seconds
    max_entries,    \* LLMCache.max_entries
    lastOp,         \* the last cache call made by the driver and what it returned
    written,        \* per key: the value and time of the last set still in force
    audit,          \* per key: touch order, whether read since set; last entry pushed out
    heap,           \* the objects callers and the cache hold, by reference
    \* ---- LLMClient (llm_client.py) ----
    cache_enabled,  \* LLMClient._cache_enabled
    last_cache_hit, \* LLMClient._last_cache_hit
    lastCall,       \* the last invoke / invoke_chat call and what came of it
    pure,           \* arguments and results of the pure functions exercised
    \* ---- one request (langgraph_service.py, orchestrator.py) ----
    pc,             \* the function or graph node about to run
    request,        \* the payload as the caller sent it
    entry,          \* the entry point the caller invoked
    payload,        \* the payload as rewritten by the entry points
    state,          \* LearningSessionState threaded through the graph
    visited,        \* the graph nodes run so far, in order
    calls,          \* the call sites whose outbound model call was issued, in order
    cacheOps,       \* the cache calls made so far: <<call site, "get" or "set">>
    response,       \* what the entry point returned to the caller
    error           \* the exception surfaced to the caller ("" when none)

cacheVars == <<store, now, ttl_seconds, max_entries, lastOp, written>>
auxVars == <<heap, lastCall, pure>>
clientVars == <<cache_enabled, last_cache_hit>>
runVars == <<pc, request, entry, payload, state, visited, calls, cacheOps,
             response, error>>
vars == <<store, now, ttl_seconds, max_entries, lastOp, written, audit, heap,
          cache_enabled, last_cache_hit, lastCall, pure,
          pc, request, entry, payload, state, visited, calls, cacheOps,
          response, error>>

-----------------------------------------------------------------------------
(***************************************************************************)
(* JSON-like values.  A value is a record [tag, src, text]:                *)
(*   tag  - "none", "dict", "list" or "str"                                *)
(*   src  - for a dict or list: "empty" when it has no element, otherwise  *)
(*          where its content came from; for a str: what the text is       *)
(*          ("empty", "blank" = whitespace only, "json_obj",               *)
(*          "json_emptyobj", "json_arr", "json_scalar", "text" = not JSON) *)
(*   text - for a dict: the value of its "problem" key ("" when it has     *)
(*          none); for a str: the text with surrounding whitespace removed *)
(***************************************************************************)
None == [tag |-> "none", src |-> "", text |-> ""]
Dict(src, text) == [tag |-> "dict", src |-> src, text |-> text]
List(src) == [tag |-> "list", src |-> src, text |-> ""]
Str(src, text) == [tag |-> "str", src |-> src, text |-> text]

EmptyDict == Dict("empty", "")
EmptyList == List("empty")

IsDict(v) == v.tag = "dict"
IsList(v) == v.tag = "list"
IsStr(v) == v.tag = "str"

\* Python truthiness: None, {}, [] and "" are false, everything else is true.
Truthy(v) ==
    CASE v.tag = "none" -> FALSE
      [] v.tag = "dict" -> v.src # "empty"
      [] v.tag = "list" -> v.src # "empty"
      [] v.tag = "str" -> v.src # "empty"

\* str.strip() leaves nothing of an empty or whitespace-only string.
StripIsEmpty(v) == v.src \in {"empty", "blank"}

\* json.loads of a string: the decoded value, or a JSONDecodeError.
JsonDecodes(v) == v.src \in {"json_obj", "json_emptyobj", "json_arr", "json_scalar"}
JsonLoads(v) ==
    CASE v.src = "json_obj" -> Dict("parsed", "")
      [] v.src = "json_emptyobj" -> EmptyDict
      [] v.src = "json_arr" -> List("parsed")
      [] OTHER -> Str("text", "scalar")

-----------------------------------------------------------------------------
(***************************************************************************)
(* services/cache.py: LLMCache                                             *)
(***************************************************************************)
DefaultTtl == 600
DefaultMaxEntries == 128

Max(a, b) == IF a >= b THEN a ELSE b

\* LLMCache.__init__ clamps its configuration.
ClampTtl(raw) == Max(0, raw)
ClampMaxEntries(raw) == Max(1, raw)

CacheEntry(key, created_at, value) ==
    [key |-> key, created_at |-> created_at, payload |-> value]

HasKey(s, key) == \E i \in 1..Len(s) : s[i].key = key
IndexOf(s, key) == CHOOSE i \in 1..Len(s) : s[i].key = key
Without(s, key) == SelectSeq(s, LAMBDA e : e.key # key)
MoveToEnd(s, key) == Append(Without(s, key), s[IndexOf(s, key)])

\* copy.deepcopy: an equal value that shares nothing with the original.
DeepCopy(v) == v

ExpiredLax(ttl, created_at, t) == ttl # 0 /\ (t - created_at) >= ttl
\* get: `self.ttl_seconds and (time.time() - entry.created_at) > self.ttl_seconds`
Expired(ttl, created_at, t) == ttl # 0 /\ (t - created_at) > ttl

CacheGetNoBump(s, ttl, key, t) ==
    IF ~HasKey(s, key)
    THEN [value |-> None, store |-> s]
    ELSE LET e == s[IndexOf(s, key)] IN
         IF Expired(ttl, e.created_at, t)
         THEN [value |-> None, store |-> Without(s, key)]
         ELSE [value |-> DeepCopy(e.payload), store |-> s]
CacheGetSliding(s, ttl, key, t) ==
    IF ~HasKey(s, key)
    THEN [value |-> None, store |-> s]
    ELSE LET e == s[IndexOf(s, key)] IN
         IF Expired(ttl, e.created_at, t)
         THEN [value |-> None, store |-> Without(s, key)]
         ELSE [value |-> DeepCopy(e.payload),
               store |-> Append(Without(s, key), CacheEntry(key, t, e.payload))]
CacheGetSweep(s, ttl, key, t) ==
    LET live == SelectSeq(s, LAMBDA e : ~Expired(ttl, e.created_at, t)) IN
    IF ~HasKey(live, key)
    THEN [value |-> None, store |-> live]
    ELSE [value |-> DeepCopy(live[IndexOf(live, key)].payload),
          store |-> MoveToEnd(live, key)]
\* LLMCache.get: the value returned and the table afterwards.
CacheGet(s, ttl, key, t) ==
    IF ~HasKey(s, key)
    THEN [value |-> None, store |-> s]
    ELSE LET e == s[IndexOf(s, key)] IN
         IF Expired(ttl, e.created_at, t)
         THEN [value |-> None, store |-> Without(s, key)]
         ELSE [value |-> DeepCopy(e.payload), store |-> MoveToEnd(s, key)]

CacheSetOffByOne(s, cap, key, value, t) ==
    IF HasKey(s, key)
    THEN Append(Without(s, key), CacheEntry(key, t, DeepCopy(value)))
    ELSE LET kept == IF Len(s) > cap THEN Tail(s) ELSE s IN
         Append(kept, CacheEntry(key, t, DeepCopy(value)))
\* LLMCache.set: the table afterwards.
CacheSetKeepFirst(s, cap, key, value, t) ==
    IF HasKey(s, key)
    THEN s
    ELSE LET kept == IF Len(s) >= cap THEN Tail(s) ELSE s IN
         Append(kept, CacheEntry(key, t, DeepCopy(value)))
CacheSet(s, cap, key, value, t) ==
    IF HasKey(s, key)
    THEN Append(Without(s, key), CacheEntry(key, t, DeepCopy(value)))
    ELSE LET kept == IF Len(s) >= cap THEN Tail(s) ELSE s IN
         Append(kept, CacheEntry(key, t, DeepCopy(value)))

\* LLMCache.clear
CacheClear(s) == << >>


-----------------------------------------------------------------------------
(***************************************************************************)
(* services/llm_client.py: LLMClient                                       *)
(***************************************************************************)
\* dict.get(key): the value, or None when the key is absent.
Get(d, k) == IF k \in DOMAIN d THEN d[k] ELSE None

EmptyMap == [k \in {} |-> None]

\* LLMClient.ensure_dict: [ok, value, error]
ensure_dict(data) ==
    CASE data.tag = "none" -> [ok |-> TRUE, value |-> EmptyDict, error |-> ""]
      [] data.tag = "dict" -> [ok |-> TRUE, value |-> data, error |-> ""]
      [] data.tag = "str" ->
            IF StripIsEmpty(data)
            THEN [ok |-> TRUE, value |-> EmptyDict, error |-> ""]
            ELSE IF ~JsonDecodes(data)
            THEN [ok |-> FALSE, value |-> None,
                  error |-> "Expected JSON object string"]
            ELSE IF ~IsDict(JsonLoads(data))
            THEN [ok |-> FALSE, value |-> None,
                  error |-> "Expected JSON object after parsing"]
            ELSE [ok |-> TRUE, value |-> JsonLoads(data), error |-> ""]
      [] OTHER -> [ok |-> FALSE, value |-> None,
                   error |-> "Expected dictionary payload or JSON object string"]

\* What the external model's reply decodes to: a JSON object carrying a
\* "problem" text, a JSON object without one, the empty object, a JSON array,
\* or no usable reply at all (transport error, empty or undecodable content).
ModelReplies == {"object", "object_notext", "empty_object", "array", "raise"}

\* LLMClient._normalize_payload of a decoded reply.
_normalize_payload(reply) ==
    CASE reply = "object" -> Dict("model", "generated problem text")
      [] reply = "object_notext" -> Dict("model", "")
      [] reply = "empty_object" -> EmptyDict
      [] OTHER -> List("model")

\* The key of a call site in a session run: the digest is taken as
\* injective, so the key is the call's identity and arguments themselves.
CacheKeyOf(site, args) == [site |-> site, args |-> args]

invoke_chat_NoStore(key, use_cache, reply) ==
    LET probing == cache_enabled /\ use_cache
        got == IF probing
               THEN CacheGet(store, ttl_seconds, key, now)
               ELSE [value |-> None, store |-> store]
    IN
    IF probing /\ got.value # None
    THEN [ok |-> TRUE, value |-> got.value, called |-> FALSE,
          probed |-> TRUE, stored |-> FALSE,
          hit |-> TRUE, store |-> got.store]
    ELSE IF reply = "raise"
    THEN [ok |-> FALSE, value |-> None, called |-> TRUE,
          probed |-> probing, stored |-> FALSE,
          hit |-> last_cache_hit, store |-> got.store]
    ELSE [ok |-> TRUE, value |-> _normalize_payload(reply), called |-> TRUE,
          probed |-> probing, stored |-> FALSE,
          hit |-> FALSE, store |-> got.store]
invoke_chat_FlagKept(key, use_cache, reply) ==
    LET probing == cache_enabled /\ use_cache
        got == IF probing
               THEN CacheGet(store, ttl_seconds, key, now)
               ELSE [value |-> None, store |-> store]
    IN
    IF probing /\ got.value # None
    THEN [ok |-> TRUE, value |-> got.value, called |-> FALSE,
          probed |-> TRUE, stored |-> FALSE,
          hit |-> TRUE, store |-> got.store]
    ELSE IF reply = "raise"
    THEN [ok |-> FALSE, value |-> None, called |-> TRUE,
          probed |-> probing, stored |-> FALSE,
          hit |-> last_cache_hit, store |-> got.store]
    ELSE [ok |-> TRUE, value |-> _normalize_payload(reply), called |-> TRUE,
          probed |-> probing, stored |-> probing,
          hit |-> last_cache_hit,
          store |-> IF probing
                    THEN CacheSet(got.store, max_entries, key,
                                  _normalize_payload(reply), now)
                    ELSE got.store]
invoke_chat_StoreValid(key, use_cache, reply) ==
    LET probing == cache_enabled /\ use_cache
        got == IF probing
               THEN CacheGet(store, ttl_seconds, key, now)
               ELSE [value |-> None, store |-> store]
        valid == IsDict(_normalize_payload(reply)) /\ Truthy(_normalize_payload(reply))
    IN
    IF probing /\ got.value # None
    THEN [ok |-> TRUE, value |-> got.value, called |-> FALSE,
          probed |-> TRUE, stored |-> FALSE,
          hit |-> TRUE, store |-> got.store]
    ELSE IF reply = "raise"
    THEN [ok |-> FALSE, value |-> None, called |-> TRUE,
          probed |-> probing, stored |-> FALSE,
          hit |-> last_cache_hit, store |-> got.store]
    ELSE [ok |-> TRUE, value |-> _normalize_payload(reply), called |-> TRUE,
          probed |-> probing, stored |-> probing /\ valid,
          hit |-> FALSE,
          store |-> IF probing /\ valid
                    THEN CacheSet(got.store, max_entries, key,
                                  _normalize_payload(reply), now)
                    ELSE got.store]
\* LLMClient.invoke_chat (and invoke, which wraps a handler the same way):
\* probe the cache, call the model on a miss, store the normalized result.
\* Returns what the caller gets and what became of the client and the cache.
invoke_chat(key, use_cache, reply) ==
    LET probing == cache_enabled /\ use_cache
        got == IF probing
               THEN CacheGet(store, ttl_seconds, key, now)
               ELSE [value |-> None, store |-> store]
    IN
    IF probing /\ got.value # None
    THEN [ok |-> TRUE, value |-> got.value, called |-> FALSE,
          probed |-> TRUE, stored |-> FALSE,
          hit |-> TRUE, store |-> got.store]
    ELSE IF reply = "raise"
    THEN [ok |-> FALSE, value |-> None, called |-> TRUE,
          probed |-> probing, stored |-> FALSE,
          hit |-> last_cache_hit, store |-> got.store]
    ELSE [ok |-> TRUE, value |-> _normalize_payload(reply), called |-> TRUE,
          probed |-> probing, stored |-> probing,
          hit |-> FALSE,
          store |-> IF probing
                    THEN CacheSet(got.store, max_entries, key,
                                  _normalize_payload(reply), now)
                    ELSE got.store]

-----------------------------------------------------------------------------
(***************************************************************************)
(* services/orchestrator.py: session state                                 *)
(***************************************************************************)
ArtifactFields == {"problem", "student_attempt", "thought_analysis",
                   "strategies", "tutor_session", "consistency_report",
                   "adaptive_plan", "disability_analysis"}

\* build_initial_state, "Optional inputs"
OptionalInputs == {"student_history", "student_response", "thought_analysis",
                   "strategies", "tutor_session", "consistency_report",
                   "adaptive_plan", "disability_analysis"}

\* LangGraphOrchestrator.build_initial_state: [ok, state, error]
build_initial_state(p) ==
    LET workflow_type ==
            IF p.workflow_type # "" THEN p.workflow_type
            ELSE IF p.metadata.workflow_type # "" THEN p.metadata.workflow_type
            ELSE "full"
        stop_after ==
            IF workflow_type = "pre_tutor" /\ p.metadata.stop_after = ""
            THEN "strategies"
            ELSE p.metadata.stop_after
        hasProblem == p.problem # None
        hasAttempt == p.student_attempt # None
        attempt == ensure_dict(p.student_attempt)
        metadata == [workflow_type |-> workflow_type,
                     stop_after |-> stop_after,
                     refresh_problem |-> p.metadata.refresh_problem,
                     target_correctness |-> p.metadata.target_correctness,
                     use_provided_problem |-> hasProblem,
                     student_attempt_source |->
                         IF hasAttempt THEN "provided" ELSE "",
                     cache_status |-> {}]
        base == [k \in {"grade_level", "difficulty", "disability", "metadata"} |->
                    CASE k = "grade_level" -> Str("text", "7th")
                      [] k = "difficulty" -> Str("text", "medium")
                      [] k = "disability" -> Str("text", "Dyslexia")
                      [] OTHER -> metadata]
        optional == [k \in {f \in OptionalInputs : p[f] # None} |-> p[k]]
        problem ==
            IF ~hasProblem THEN EmptyMap
            ELSE IF IsDict(p.problem) THEN [k \in {"problem"} |-> p.problem]
            ELSE IF ~StripIsEmpty(p.problem)
            THEN [k \in {"problem"} |-> Dict("wrapped", p.problem.text)]
            ELSE EmptyMap
        student_attempt ==
            IF hasAttempt /\ attempt.ok
            THEN [k \in {"student_attempt"} |-> attempt.value]
            ELSE EmptyMap
        history == p.student_history
        parsed_history ==
            IF IsStr(history) /\ JsonDecodes(history) /\ IsList(JsonLoads(history))
            THEN [k \in {"student_history"} |-> JsonLoads(history)]
            ELSE EmptyMap
    IN
    IF hasAttempt /\ ~attempt.ok
    THEN [ok |-> FALSE, state |-> EmptyMap,
          error |-> "HTTPException 400: " \o attempt.error]
    ELSE IF IsStr(history) /\ ~JsonDecodes(history)
    THEN [ok |-> FALSE, state |-> EmptyMap,
          error |-> "HTTPException 400: student_history must be a JSON array"]
    ELSE [ok |-> TRUE, error |-> "",
          state |-> parsed_history @@ student_attempt @@ problem
                    @@ optional @@ base]

\* The metadata check of sanitize_state (`if value:`): a mapping with keys.
MetadataTruthy(m) == DOMAIN m # {} /\ m # None

\* A variant that returns the state as it is.
sanitize_state_KeepAll(st) == st

\* A variant that blanks an empty field instead of keeping it.
sanitize_state_BlankEmpty(st) ==
    [k \in {f \in DOMAIN st :
              IF f = "metadata" THEN MetadataTruthy(st[f]) ELSE st[f] # None}
       |-> IF k = "metadata" \/ Truthy(st[k]) THEN st[k] ELSE None]

\* LangGraphOrchestrator.sanitize_state
sanitize_state(st) ==
    [k \in {f \in DOMAIN st :
              IF f = "metadata" THEN MetadataTruthy(st[f]) ELSE st[f] # None}
       |-> st[k]]

\* format_workflow_results: response key -> state key
ResultKeys == {"generated_problem", "student_simulation", "thought_analysis",
               "teaching_strategies", "tutor_session", "consistency_validation",
               "adaptive_plan", "disability_analysis"}
ResultSource(k) ==
    CASE k = "generated_problem" -> "problem"
      [] k = "student_simulation" -> "student_attempt"
      [] k = "teaching_strategies" -> "strategies"
      [] k = "consistency_validation" -> "consistency_report"
      [] OTHER -> k

\* LangGraphOrchestrator.format_workflow_results
format_workflow_results(st, workflow_type, current_step) ==
    [kind |-> "envelope",
     workflow_type |-> workflow_type,
     current_step |-> current_step,
     results |-> [k \in {r \in ResultKeys : Truthy(Get(st, ResultSource(r)))}
                    |-> Get(st, ResultSource(k))],
     metadata |-> [k \in {"grade_level", "difficulty", "disability"}
                     |-> Get(st, k)]]

\* What run_learning_session returns: the sanitized state itself.
StateResponse(st) ==
    [kind |-> "state", workflow_type |-> "", current_step |-> "",
     results |-> st, metadata |-> EmptyMap]

NoResponse ==
    [kind |-> "none", workflow_type |-> "", current_step |-> "",
     results |-> EmptyMap, metadata |-> EmptyMap]

\* langgraph_service._derive_current_step
_derive_current_step(st) ==
    IF Truthy(Get(st, "disability_analysis")) THEN "completed"
    ELSE IF Truthy(Get(st, "adaptive_plan")) THEN "completed"
    ELSE IF Truthy(Get(st, "consistency_report")) THEN "consistency_validated"
    ELSE IF Truthy(Get(st, "tutor_session")) THEN "tutor_simulated"
    ELSE IF Truthy(Get(st, "strategies")) THEN "strategies_generated"
    ELSE IF Truthy(Get(st, "thought_analysis")) THEN "thought_analyzed"
    ELSE IF Truthy(Get(st, "student_attempt")) THEN "student_simulated"
    ELSE IF Truthy(Get(st, "problem")) THEN "problem_generated"
    ELSE "initialized"


-----------------------------------------------------------------------------
(***************************************************************************)
(* SpecCache: one LLMCache instance driven by arbitrary get / set / clear  *)
(* calls while the clock advances.                                         *)
(***************************************************************************)
MaxTime == 3

CacheKeys == {"k1", "k2", "k3"}
CacheValues == {Dict("model", "v1"), Dict("model", "v2")}
TtlInputs == {-1, 0, 2}
MaxEntriesInputs == {0, 2}

NoOp == [op |-> "none", key |-> "", value |-> None, at |-> 0]
NotWritten == [val |-> None, at |-> -1]

\* What the driver has seen of the cache through its calls: the stored keys
\* in the order of their last touch (a get that returned a value, or a set),
\* which keys were read since they were set, and the entry that the last
\* call pushed out to make room.
NoEntry == CacheEntry("", -1, None)
NoAudit == [order |-> << >>, read |-> [k \in CacheKeys |-> FALSE],
            evicted |-> NoEntry]
Keys(s) == {s[i].key : i \in 1..Len(s)}
Touch(order, k, stored) ==
    SelectSeq(Append(SelectSeq(order, LAMBDA x : x # k), k),
              LAMBDA x : x \in stored)
Forget(order, stored) == SelectSeq(order, LAMBDA x : x \in stored)
PushedOut(s, stored) ==
    IF \E i \in 1..Len(s) : s[i].key \notin stored
    THEN s[CHOOSE i \in 1..Len(s) : s[i].key \notin stored]
    ELSE NoEntry

\* The variables of the other specifications, at rest.
NoCall == [fn |-> "", target |-> "", key |-> "", use_cache |-> FALSE,
           reply |-> "",
           ok |-> FALSE, value |-> None, called |-> FALSE, at |-> 0]
EmptyHeap == [cells |-> << >>, held |-> {}]
AuxIdle ==
    /\ heap = EmptyHeap
    /\ lastCall = NoCall
    /\ pure = EmptyMap

\* No request is being served (the cache is exercised on its own).
RunIdle ==
    /\ pc = "idle"
    /\ request = None
    /\ entry = ""
    /\ payload = None
    /\ state = EmptyMap
    /\ visited = << >>
    /\ calls = << >>
    /\ cacheOps = {}
    /\ response = NoResponse
    /\ error = ""
    /\ cache_enabled = TRUE
    /\ last_cache_hit = FALSE

InitCache ==
    /\ store = << >>
    /\ now = 0
    /\ \E raw \in TtlInputs : ttl_seconds = ClampTtl(raw)
    /\ \E raw \in MaxEntriesInputs : max_entries = ClampMaxEntries(raw)
    /\ lastOp = NoOp
    /\ written = [k \in CacheKeys |-> NotWritten]
    /\ audit = NoAudit
    /\ AuxIdle
    /\ RunIdle

\* cache.get(k)
CGet(k) ==
    LET r == CacheGet(store, ttl_seconds, k, now) IN
    /\ store' = r.store
    /\ lastOp' = [op |-> "get", key |-> k, value |-> r.value, at |-> now]
    /\ audit' = [order |-> IF r.value # None
                           THEN Touch(audit.order, k, Keys(r.store))
                           ELSE Forget(audit.order, Keys(r.store)),
                 read |-> IF r.value # None
                          THEN [audit.read EXCEPT ![k] = TRUE]
                          ELSE audit.read,
                 evicted |-> NoEntry]
    /\ UNCHANGED <<now, ttl_seconds, max_entries, written>>
    /\ UNCHANGED <<clientVars, runVars, auxVars>>

\* cache.set(k, v); `written` forgets the entry that capacity pressure pushes
\* out (the least recently used one, when k is new and the table is full).
CSet(k, v) ==
    LET full == ~HasKey(store, k) /\ Len(store) >= max_entries
        victim == IF full THEN Head(store).key ELSE k
    IN
    /\ store' = CacheSet(store, max_entries, k, v, now)
    /\ lastOp' = [op |-> "set", key |-> k, value |-> v, at |-> now]
    /\ written' = [x \in CacheKeys |->
                     IF x = k THEN [val |-> v, at |-> now]
                     ELSE IF x = victim THEN NotWritten
                     ELSE written[x]]
    /\ audit' = [order |-> Touch(audit.order, k, Keys(store')),
                 read |-> [audit.read EXCEPT ![k] = FALSE],
                 evicted |-> PushedOut(store, Keys(store'))]
    /\ UNCHANGED <<now, ttl_seconds, max_entries>>
    /\ UNCHANGED <<clientVars, runVars, auxVars>>

\* cache.clear()
CClear ==
    /\ store # << >>
    /\ store' = CacheClear(store)
    /\ lastOp' = [op |-> "clear", key |-> "", value |-> None, at |-> now]
    /\ written' = [k \in CacheKeys |-> NotWritten]
    /\ audit' = NoAudit
    /\ UNCHANGED <<now, ttl_seconds, max_entries>>
    /\ UNCHANGED <<clientVars, runVars, auxVars>>

\* time passes
Tick ==
    /\ now < MaxTime
    /\ now' = now + 1
    /\ UNCHANGED <<store, ttl_seconds, max_entries, lastOp, written, audit>>
    /\ UNCHANGED <<clientVars, runVars, auxVars>>

NextCache ==
    \/ \E k \in CacheKeys : CGet(k)
    \/ \E k \in CacheKeys, v \in CacheValues : CSet(k, v)
    \/ CClear
    \/ Tick

SpecCache == InitCache /\ [][NextCache]_vars

\* C10: a get of k that comes after set(k, v), no later than ttl_seconds after
\* it (or with ttl_seconds = 0), with k neither overwritten (then v is the
\* newer value) nor pushed out by capacity or cleared since, returns v.
C10_CacheRoundTrip ==
    (/\ lastOp.op = "get"
     /\ written[lastOp.key] # NotWritten
     /\ (ttl_seconds = 0 \/ lastOp.at - written[lastOp.key].at <= ttl_seconds))
    => lastOp.value = written[lastOp.key].val

\* A get of k, exactly ttl_seconds after its set, that returned the value
\* although other keys were set and read in between.
C10_Witness ==
    /\ lastOp.op = "get"
    /\ written[lastOp.key] # NotWritten
    /\ ttl_seconds > 0
    /\ lastOp.at - written[lastOp.key].at = ttl_seconds
    /\ lastOp.value = written[lastOp.key].val
    /\ Len(store) = 2
    /\ \E i \in 1..Len(store) :
          store[i].key # lastOp.key /\ store[i].created_at > written[lastOp.key].at

\* A step that is a set call, or a get call, of the driver.
SetStep == lastOp'.op = "set" /\ now' = now
GetStep == lastOp'.op = "get" /\ now' = now

\* C11: a set of a new key while the table holds max_entries entries removes
\* exactly one entry, the least recently touched one (a get that hits and a
\* set are touches), and inserts the new key; below capacity it only inserts;
\* a set of an existing key removes nothing and leaves the size unchanged.
C11_LruEviction ==
    [][SetStep =>
        LET k == lastOp'.key IN
        IF k \in Keys(store)
        THEN /\ Keys(store') = Keys(store)
             /\ Len(store') = Len(store)
        ELSE IF Len(store) = max_entries
        THEN /\ audit.order # << >>
             /\ Keys(store') = (Keys(store) \ {Head(audit.order)}) \cup {k}
             /\ Len(store') = Len(store)
        ELSE /\ Keys(store') = Keys(store) \cup {k}
             /\ Len(store') = Len(store) + 1]_vars

\* A set at capacity that pushed out an entry inserted later than the one it
\* kept: the kept entry had been read in between.
C11_Witness ==
    /\ lastOp.op = "set"
    /\ max_entries = 2
    /\ Len(store) = 2
    /\ store[2].key = lastOp.key
    /\ audit.evicted # NoEntry
    /\ audit.evicted.created_at > store[1].created_at
    /\ audit.read[store[1].key]

\* C12: expiry is measured from the last set of the key and reads do not
\* extend it: a stored entry carries the time of its last set; a get up to
\* and including ttl_seconds after that set returns the value, a get later
\* than that returns absent and removes the entry; with ttl_seconds = 0 no
\* entry expires.
C12_TtlFromLastSet ==
    /\ \A i \in 1..Len(store) :
          /\ written[store[i].key] # NotWritten
          /\ store[i].created_at = written[store[i].key].at
    /\ (lastOp.op = "get" /\ written[lastOp.key] # NotWritten) =>
          IF ttl_seconds = 0 \/ lastOp.at - written[lastOp.key].at <= ttl_seconds
          THEN /\ lastOp.value = written[lastOp.key].val
               /\ HasKey(store, lastOp.key)
          ELSE /\ lastOp.value = None
               /\ ~HasKey(store, lastOp.key)

\* A get later than ttl_seconds after the set that returned absent and
\* removed the entry, although the entry had been read before it expired.
C12_Witness ==
    /\ lastOp.op = "get"
    /\ lastOp.value = None
    /\ written[lastOp.key] # NotWritten
    /\ ttl_seconds > 0
    /\ lastOp.at - written[lastOp.key].at > ttl_seconds
    /\ audit.read[lastOp.key]
    /\ ~HasKey(store, lastOp.key)
    /\ store # << >>

\* C13: after any sequence of get, set and clear calls, in whatever order the
\* sessions sharing the cache issue them, the table holds at most max_entries
\* entries, max_entries is at least 1, each key is stored at most once, and
\* the table's order is the order of last touch of exactly the stored keys.
C13_Capacity ==
    /\ max_entries >= 1
    /\ Len(store) <= max_entries
    /\ \A i, j \in 1..Len(store) : store[i].key = store[j].key => i = j
    /\ [i \in 1..Len(store) |-> store[i].key] = audit.order

\* A table of capacity 1 (max_entries given as 0) that is full after it
\* pushed an entry out.
C13_Witness ==
    /\ max_entries = 1
    /\ Len(store) = 1
    /\ lastOp.op = "set"
    /\ audit.evicted # NoEntry
    /\ audit.evicted.key # store[1].key

\* The entries of a table.
Stored(s) == {s[i] : i \in 1..Len(s)}

\* C30: expiry is lazy and independent of eviction.  Under get and set calls
\* and the passing of time, an entry whose TTL has elapsed stays in the table
\* (and so counts toward capacity) until a get on its own key removes it, a
\* set of its own key overwrites it, or a set of a new key at capacity finds
\* it least recently used; a get or set on a different key never removes it.
\* A set of a new key at capacity evicts the least recently used entry
\* whether or not that entry has expired and whether or not an expired entry
\* is stored.
C30_LazyExpiry ==
    [][/\ \A e \in Stored(store) :
            (/\ Expired(ttl_seconds, e.created_at, now)
             /\ (SetStep \/ GetStep \/ now' # now))
            => LET k == lastOp'.key
                   victim == /\ SetStep
                             /\ k \notin Keys(store)
                             /\ Len(store) = max_entries
                             /\ e.key = Head(audit.order)
               IN
               IF now' # now THEN e \in Stored(store')
               ELSE IF e.key = k /\ GetStep
               THEN ~HasKey(store', k) /\ lastOp'.value = None
               ELSE IF e.key = k
               THEN /\ e \notin Stored(store')
                    /\ CacheEntry(k, now, lastOp'.value) \in Stored(store')
               ELSE IF victim THEN ~HasKey(store', e.key)
               ELSE e \in Stored(store')
       /\ (SetStep /\ lastOp'.key \notin Keys(store)
                   /\ Len(store) = max_entries)
          => /\ Len(store') = max_entries
             /\ Keys(store') = (Keys(store) \ {Head(audit.order)})
                                  \cup {lastOp'.key}]_vars

\* A set of a new key at capacity that pushed out an entry that had not
\* expired while an entry that had expired stayed in the table.
C30_Witness ==
    /\ lastOp.op = "set"
    /\ lastOp.at = now
    /\ ttl_seconds > 0
    /\ audit.evicted # NoEntry
    /\ ~Expired(ttl_seconds, audit.evicted.created_at, now)
    /\ \E e \in Stored(store) : Expired(ttl_seconds, e.created_at, now)

-----------------------------------------------------------------------------
(***************************************************************************)
(* SpecAlias: the cache with its payloads held by reference.  A payload is *)
(* an object with one nested object (a mapping holding a list, say); the   *)
(* heap gives each object's own text and the object nested in it.  Callers *)
(* build payloads, hand them to set, receive payloads from get, and mutate *)
(* whatever they hold, at the top or in the nested object.                 *)
(***************************************************************************)
MaxObjects == 8

AliasKeys == {"k1", "k2"}
Texts == {"a", "b"}
Cell(text, child) == [text |-> text, child |-> child]
\* A reference to an object, as it is passed to and returned by the cache.
Ref(o) == [tag |-> "ref", id |-> o]

\* The objects an object is made of: itself and the object nested in it.
Reach(h, o) == IF h.cells[o].child = 0 THEN {o} ELSE {o, h.cells[o].child}
\* The value of an object: its own text and the text nested in it.
Content(h, o) ==
    [text |-> h.cells[o].text,
     nested |-> IF h.cells[o].child = 0 THEN ""
                ELSE h.cells[h.cells[o].child].text]

copy_copy(h, o) ==
    [ref |-> Len(h.cells) + 1,
     heap |-> [h EXCEPT !.cells = Append(@, h.cells[o])]]
\* copy.deepcopy(payload): a new object with a new nested object, same texts.
copy_deepcopy(h, o) ==
    LET n == Len(h.cells) IN
    IF h.cells[o].child = 0
    THEN [ref |-> n + 1,
          heap |-> [h EXCEPT !.cells = Append(@, Cell(h.cells[o].text, 0))]]
    ELSE [ref |-> n + 2,
          heap |-> [h EXCEPT !.cells =
                       @ \o << Cell(h.cells[h.cells[o].child].text, 0),
                               Cell(h.cells[o].text, n + 1) >>]]

InitAlias ==
    /\ store = << >>
    /\ now = 0
    /\ ttl_seconds = ClampTtl(DefaultTtl)
    /\ max_entries = ClampMaxEntries(DefaultMaxEntries)
    /\ lastOp = NoOp
    /\ written = [k \in CacheKeys |-> NotWritten]
    /\ audit = NoAudit
    /\ heap = EmptyHeap
    /\ lastCall = NoCall
    /\ pure = EmptyMap
    /\ RunIdle

AliasFrame == <<now, ttl_seconds, max_entries, audit, lastCall, pure,
                clientVars, runVars>>

\* A caller builds a payload.
New(text, nested) ==
    /\ Len(heap.cells) + 2 <= MaxObjects
    /\ heap' = [cells |-> heap.cells \o << Cell(nested, 0),
                                           Cell(text, Len(heap.cells) + 1) >>,
                held |-> heap.held \cup {Len(heap.cells) + 2}]
    /\ lastOp' = [op |-> "new", key |-> "", value |-> Ref(Len(heap.cells) + 2),
                  at |-> now]
    /\ UNCHANGED <<store, written, AliasFrame>>

\* cache.set(k, o): the entry holds copy.deepcopy(o).
ASet(k, o) ==
    /\ Len(heap.cells) + 2 <= MaxObjects
    /\ LET c == copy_deepcopy(heap, o) IN
       /\ heap' = c.heap
       /\ store' = CacheSet(store, max_entries, k, Ref(c.ref), now)
    /\ written' = [written EXCEPT
                     ![k] = [val |-> Content(heap, o), at |-> now, from |-> o]]
    /\ lastOp' = [op |-> "set", key |-> k, value |-> Ref(o), at |-> now]
    /\ UNCHANGED AliasFrame

\* cache.get(k): the caller receives copy.deepcopy(entry.payload).
AGet(k) ==
    /\ Len(heap.cells) + 2 <= MaxObjects
    /\ LET r == CacheGet(store, ttl_seconds, k, now) IN
       IF r.value = None
       THEN /\ lastOp' = [op |-> "get", key |-> k, value |-> None, at |-> now]
            /\ UNCHANGED heap
            /\ store' = r.store
       ELSE LET c == copy_deepcopy(heap, r.value.id) IN
            /\ heap' = [c.heap EXCEPT !.held = @ \cup {c.ref}]
            /\ lastOp' = [op |-> "get", key |-> k, value |-> Ref(c.ref),
                          at |-> now]
            /\ store' = r.store
    /\ UNCHANGED <<written, AliasFrame>>

\* A caller mutates an object it holds, or the object nested in it.
Mutate(o, nested, text) ==
    /\ LET target == IF nested THEN heap.cells[o].child ELSE o IN
       /\ heap.cells[target].text # text
       /\ heap' = [heap EXCEPT !.cells[target].text = text]
    /\ lastOp' = [op |-> "mutate", key |-> "", value |-> Ref(o), at |-> now]
    /\ UNCHANGED <<store, written, AliasFrame>>

NextAlias ==
    \/ \E text \in Texts, nested \in Texts : New(text, nested)
    \/ \E k \in AliasKeys, o \in heap.held : ASet(k, o)
    \/ \E k \in AliasKeys : AGet(k)
    \/ \E o \in heap.held, nested \in BOOLEAN, text \in Texts :
          Mutate(o, nested, text)

SpecAlias == InitAlias /\ [][NextAlias]_vars

\* The objects the table holds and the objects the callers hold.
StoredObjects == UNION {Reach(heap, store[i].payload.id) : i \in 1..Len(store)}
HeldObjects == UNION {Reach(heap, o) : o \in heap.held}
Isolated ==
    /\ \A i \in 1..Len(store) :
          Content(heap, store[i].payload.id) = written[store[i].key].val
    /\ StoredObjects \cap HeldObjects = {}
    /\ \A a, b \in heap.held : a # b => Reach(heap, a) \cap Reach(heap, b) = {}

\* C14: mutating the object that was passed to set, or an object that get
\* returned, never changes what the table holds for the key nor what a later
\* get returns: a get returns an object equal to the value set and distinct,
\* down to its nested object, from every object a caller already holds.
C14_DeepCopyIsolation ==
    [][/\ Isolated'
       /\ (lastOp'.op = "get" /\ heap' # heap) =>
             /\ Content(heap', lastOp'.value.id) = written[lastOp'.key].val
             /\ Reach(heap', lastOp'.value.id) \cap HeldObjects = {}]_vars

\* A get that returned the value set although, since the set, the caller
\* changed the nested object of the payload it had passed and the nested
\* object of a payload an earlier get had returned.
C14_Witness ==
    /\ lastOp.op = "get"
    /\ lastOp.value # None
    /\ written[lastOp.key] # NotWritten
    /\ Content(heap, lastOp.value.id) = written[lastOp.key].val
    /\ Content(heap, written[lastOp.key].from).nested
          # written[lastOp.key].val.nested
    /\ \E g \in heap.held \ {lastOp.value.id, written[lastOp.key].from} :
          /\ Content(heap, g).text = written[lastOp.key].val.text
          /\ Content(heap, g).nested # written[lastOp.key].val.nested

-----------------------------------------------------------------------------
(***************************************************************************)
(* services/orchestrator.py: the graph and its nodes.  A node is modelled  *)
(* by its plan: what it decides from the state before any model call       *)
(* (return nothing, return a delta, raise, or call the model), and RunNode *)
(* carries the plan out.                                                   *)
(***************************************************************************)
\* _build_graph: set_entry_point and add_edge
EntryPoint == "generate_problem_step"
END == "END"
EdgeTutorFirst(node) ==
    CASE node = "generate_problem_step" -> "simulate_attempt_step"
      [] node = "simulate_attempt_step" -> "analyze_attempt_step"
      [] node = "analyze_attempt_step" -> "tutor_step"
      [] node = "tutor_step" -> "strategies_step"
      [] node = "strategies_step" -> "consistency_step"
      [] node = "consistency_step" -> "adaptive_step"
      [] node = "adaptive_step" -> "identify_step"
      [] node = "identify_step" -> END
EdgeLoop(node) ==
    CASE node = "generate_problem_step" -> "simulate_attempt_step"
      [] node = "simulate_attempt_step" -> "analyze_attempt_step"
      [] node = "analyze_attempt_step" -> "strategies_step"
      [] node = "strategies_step" -> "tutor_step"
      [] node = "tutor_step" -> "consistency_step"
      [] node = "consistency_step" -> "adaptive_step"
      [] node = "adaptive_step" -> "identify_step"
      [] node = "identify_step" -> "generate_problem_step"
Edge(node) ==
    CASE node = "generate_problem_step" -> "simulate_attempt_step"
      [] node = "simulate_attempt_step" -> "analyze_attempt_step"
      [] node = "analyze_attempt_step" -> "strategies_step"
      [] node = "strategies_step" -> "tutor_step"
      [] node = "tutor_step" -> "consistency_step"
      [] node = "consistency_step" -> "adaptive_step"
      [] node = "adaptive_step" -> "identify_step"
      [] node = "identify_step" -> END

Nodes == {"generate_problem_step", "simulate_attempt_step",
          "analyze_attempt_step", "strategies_step", "tutor_step",
          "consistency_step", "adaptive_step", "identify_step"}

_workflow_type(st) == st["metadata"].workflow_type
_stop_after(st) == st["metadata"].stop_after

\* `problem.get("problem") if isinstance(problem, dict) else None`
ProblemText(problem) == IF IsDict(problem) THEN problem.text ELSE ""
Text(t) == Str("text", t)

NoOpPlan ==
    [kind |-> "noop", field |-> "", value |-> None, error |-> "",
     site |-> "", key |-> CacheKeyOf("", << >>), use_cache |-> FALSE,
     nonempty |-> FALSE, reject |-> ""]
ReturnPlan(field, value) ==
    [NoOpPlan EXCEPT !.kind = "return", !.field = field, !.value = value]
RaisePlan(err) == [NoOpPlan EXCEPT !.kind = "raise", !.error = err]
CallPlan(site, field, args, use_cache, nonempty, reject) ==
    [NoOpPlan EXCEPT !.kind = "call", !.field = field, !.site = site,
                     !.key = CacheKeyOf(site, args),
                     !.use_cache = use_cache, !.nonempty = nonempty,
                     !.reject = reject]

_generate_problem_node_WhenStateLacks(st) ==
    IF Truthy(Get(st, "problem")) THEN NoOpPlan
    ELSE CallPlan("generate_problem", "problem",
                  <<Get(st, "grade_level"), Get(st, "difficulty")>>,
                  TRUE, TRUE,
                  "HTTPException 500: Problem generation returned empty payload")
_generate_problem_node_Regenerates(st) ==
    IF _workflow_type(st) = "analysis_only" /\ Truthy(Get(st, "problem"))
    THEN NoOpPlan
    ELSE CallPlan("generate_problem", "problem",
                  <<Get(st, "grade_level"), Get(st, "difficulty")>>,
                  TRUE, TRUE,
                  "HTTPException 500: Problem generation returned empty payload")
_generate_problem_node(st) ==
    IF st["metadata"].use_provided_problem THEN NoOpPlan
    ELSE IF _workflow_type(st) = "analysis_only" /\ Truthy(Get(st, "problem"))
    THEN NoOpPlan
    ELSE CallPlan("generate_problem", "problem",
                  <<Get(st, "grade_level"), Get(st, "difficulty")>>,
                  TRUE, TRUE,
                  "HTTPException 500: Problem generation returned empty payload")

_simulate_attempt_node_AlwaysSimulates(st) ==
    IF ProblemText(Get(st, "problem")) = ""
    THEN RaisePlan("HTTPException 400: Problem text missing for attempt simulation")
    ELSE CallPlan("simulate_attempt", "student_attempt",
                  <<Get(st, "disability"), Get(st, "problem"),
                    Text(st["metadata"].target_correctness)>>,
                  st["metadata"].target_correctness # "likely_incorrect",
                  FALSE,
                  "HTTPException 500: Student attempt returned invalid payload")
_simulate_attempt_node_AlwaysCached(st) ==
    IF Truthy(Get(st, "student_attempt"))
    THEN LET attempt_payload == ensure_dict(st["student_attempt"]) IN
         IF attempt_payload.ok
         THEN ReturnPlan("student_attempt", attempt_payload.value)
         ELSE RaisePlan("ValueError: " \o attempt_payload.error)
    ELSE IF ProblemText(Get(st, "problem")) = ""
    THEN RaisePlan("HTTPException 400: Problem text missing for attempt simulation")
    ELSE CallPlan("simulate_attempt", "student_attempt",
                  <<Get(st, "disability"), Get(st, "problem"),
                    Text(st["metadata"].target_correctness)>>,
                  TRUE, FALSE,
                  "HTTPException 500: Student attempt returned invalid payload")
_simulate_attempt_node(st) ==
    IF Truthy(Get(st, "student_attempt"))
    THEN LET attempt_payload == ensure_dict(st["student_attempt"]) IN
         IF attempt_payload.ok
         THEN ReturnPlan("student_attempt", attempt_payload.value)
         ELSE RaisePlan("ValueError: " \o attempt_payload.error)
    ELSE IF ProblemText(Get(st, "problem")) = ""
    THEN RaisePlan("HTTPException 400: Problem text missing for attempt simulation")
    ELSE CallPlan("simulate_attempt", "student_attempt",
                  <<Get(st, "disability"), Get(st, "problem"),
                    Text(st["metadata"].target_correctness)>>,
                  st["metadata"].target_correctness # "likely_incorrect",
                  FALSE,
                  "HTTPException 500: Student attempt returned invalid payload")

_analyze_attempt_node(st) ==
    IF ~Truthy(Get(st, "problem")) \/ ~Truthy(Get(st, "student_attempt"))
    THEN NoOpPlan
    ELSE CallPlan("analyze_attempt", "thought_analysis",
                  <<Get(st, "disability"), Text(ProblemText(Get(st, "problem"))),
                    Get(st, "student_attempt")>>,
                  TRUE, FALSE,
                  "HTTPException 500: Thought analysis returned invalid payload")

_strategy_node(st) ==
    IF ~Truthy(Get(st, "thought_analysis")) THEN NoOpPlan
    ELSE CallPlan("strategies", "strategies",
                  <<Get(st, "disability"), Text(ProblemText(Get(st, "problem"))),
                    Get(st, "student_attempt"), Get(st, "thought_analysis")>>,
                  TRUE, FALSE,
                  "HTTPException 500: Teaching strategies returned invalid payload")

_tutor_node_Unguarded(st) ==
    IF ~Truthy(Get(st, "thought_analysis")) THEN NoOpPlan
    ELSE CallPlan("tutor", "tutor_session",
                  <<Get(st, "disability"), Text(ProblemText(Get(st, "problem"))),
                    Get(st, "student_attempt"), Get(st, "thought_analysis")>>,
                  TRUE, FALSE,
                  "HTTPException 500: Tutor session returned invalid payload")
_tutor_node(st) ==
    IF _stop_after(st) \in {"analysis", "strategies"} THEN NoOpPlan
    ELSE IF ~Truthy(Get(st, "thought_analysis")) THEN NoOpPlan
    ELSE CallPlan("tutor", "tutor_session",
                  <<Get(st, "disability"), Text(ProblemText(Get(st, "problem"))),
                    Get(st, "student_attempt"), Get(st, "thought_analysis")>>,
                  TRUE, FALSE,
                  "HTTPException 500: Tutor session returned invalid payload")

_consistency_node(st) ==
    IF _stop_after(st) \in {"analysis", "strategies", "tutor"} THEN NoOpPlan
    ELSE IF ~Truthy(Get(st, "problem")) \/ ~Truthy(Get(st, "student_attempt"))
    THEN NoOpPlan
    ELSE CallPlan("consistency", "consistency_report",
                  <<Get(st, "problem"), Get(st, "disability"),
                    Get(st, "student_attempt")>>,
                  TRUE, FALSE,
                  "HTTPException 500: Consistency validation returned invalid payload")

_adaptive_difficulty_node_AnyHistory(st) ==
    IF _stop_after(st) \in {"analysis", "strategies", "tutor", "consistency"}
    THEN NoOpPlan
    ELSE CallPlan("adaptive", "adaptive_plan",
                  <<Get(st, "student_history"), Get(st, "difficulty")>>,
                  TRUE, FALSE,
                  "HTTPException 500: Adaptive difficulty returned invalid payload")
_adaptive_difficulty_node(st) ==
    IF _stop_after(st) \in {"analysis", "strategies", "tutor", "consistency"}
    THEN NoOpPlan
    ELSE IF ~Truthy(Get(st, "student_history")) THEN NoOpPlan
    ELSE CallPlan("adaptive", "adaptive_plan",
                  <<Get(st, "student_history"), Get(st, "difficulty")>>,
                  TRUE, FALSE,
                  "HTTPException 500: Adaptive difficulty returned invalid payload")

_identify_disability_node(st) ==
    IF _stop_after(st) \in {"analysis", "strategies", "tutor", "consistency",
                            "adaptive"}
    THEN NoOpPlan
    ELSE IF ~Truthy(Get(st, "student_response")) THEN NoOpPlan
    ELSE IF ProblemText(Get(st, "problem")) = "" THEN NoOpPlan
    ELSE CallPlan("identify", "disability_analysis",
                  <<Text(ProblemText(Get(st, "problem"))),
                    Get(st, "student_response")>>,
                  TRUE, FALSE,
                  "HTTPException 500: Disability analysis returned invalid payload")

_record_cache_MarksSource(st, site, hit) ==
    [st EXCEPT !["metadata"].cache_status =
                   {c \in @ : c[1] # site} \cup {<<site, hit>>},
               !["metadata"].student_attempt_source = site]
\* _record_cache: metadata.cache_status[node] = llm_client.last_cache_hit
_record_cache(st, site, hit) ==
    [st EXCEPT !["metadata"].cache_status =
        {c \in @ : c[1] # site} \cup {<<site, hit>>}]

\* The graph applies a node's delta to the state it threads along.
Merge(st, delta) == delta @@ st
Delta(field, value) == [k \in {field} |-> value]

\* What the model can reply to a node's prompt.
Replies(node) ==
    IF node = "generate_problem_step" THEN ModelReplies
    ELSE ModelReplies \ {"object"}

\* A node's check of what invoke_chat returned:
\* `if not isinstance(payload, dict)` (and `or not payload` in generate_problem).
AcceptedUnchecked(plan, value) == TRUE
Accepted(plan, value) ==
    IsDict(value) /\ (plan.nonempty => Truthy(value))

Fail(err) ==
    /\ pc' = "failed"
    /\ error' = err
    /\ response' = NoResponse

\* One node of the graph runs to completion.
RunNode(node, plan) ==
    /\ pc = node
    /\ UNCHANGED <<now, ttl_seconds, max_entries, lastOp, written, audit,
                   auxVars, cache_enabled, request, entry, payload>>
    /\ IF plan.kind = "noop" THEN
          /\ pc' = Edge(node)
          /\ visited' = Append(visited, [node |-> node, delta |-> EmptyMap])
          /\ UNCHANGED <<state, calls, cacheOps, store, last_cache_hit,
                         response, error>>
       ELSE IF plan.kind = "return" THEN
          /\ pc' = Edge(node)
          /\ state' = Merge(state, Delta(plan.field, plan.value))
          /\ visited' = Append(visited, [node |-> node,
                                         delta |-> Delta(plan.field, plan.value)])
          /\ UNCHANGED <<calls, cacheOps, store, last_cache_hit, response, error>>
       ELSE IF plan.kind = "raise" THEN
          /\ Fail(plan.error)
          /\ visited' = Append(visited, [node |-> node, delta |-> EmptyMap])
          /\ UNCHANGED <<state, calls, cacheOps, store, last_cache_hit>>
       ELSE \E reply \in Replies(node) :
          LET r == invoke_chat(plan.key, plan.use_cache, reply)
              accepted == r.ok /\ Accepted(plan, r.value)
          IN
          /\ store' = r.store
          /\ last_cache_hit' = r.hit
          /\ calls' = IF r.called
                      THEN Append(calls, [site |-> node, reply |-> reply])
                      ELSE calls
          /\ cacheOps' = cacheOps
                \cup (IF r.probed THEN {<<node, "get">>} ELSE {})
                \cup (IF r.stored THEN {<<node, "set">>} ELSE {})
          /\ IF accepted THEN
                /\ pc' = Edge(node)
                /\ state' = Merge(_record_cache(state, plan.site, r.hit),
                                  Delta(plan.field, r.value))
                /\ visited' = Append(visited, [node |-> node,
                                               delta |-> Delta(plan.field, r.value)])
                /\ UNCHANGED <<response, error>>
             ELSE
                /\ Fail(IF r.ok THEN plan.reject
                        ELSE "ValueError: Error calling OpenAI")
                /\ visited' = Append(visited, [node |-> node, delta |-> EmptyMap])
                /\ UNCHANGED state

generate_problem_step == RunNode("generate_problem_step", _generate_problem_node(state))
simulate_attempt_step == RunNode("simulate_attempt_step", _simulate_attempt_node(state))
analyze_attempt_step == RunNode("analyze_attempt_step", _analyze_attempt_node(state))
strategies_step == RunNode("strategies_step", _strategy_node(state))
tutor_step == RunNode("tutor_step", _tutor_node(state))
consistency_step == RunNode("consistency_step", _consistency_node(state))
adaptive_step == RunNode("adaptive_step", _adaptive_difficulty_node(state))
identify_step == RunNode("identify_step", _identify_disability_node(state))

-----------------------------------------------------------------------------
(***************************************************************************)
(* services/langgraph_service.py: the workflow entry points                *)
(***************************************************************************)
EntryPoints == {"run_workflow", "run_full_workflow", "run_problem_workflow",
                "run_analysis_workflow", "run_learning_session"}

RunFrame == <<now, ttl_seconds, max_entries, lastOp, written, audit, auxVars,
              cache_enabled, request, entry>>

\* run_workflow's dispatch: the function that serves a workflow_type.
DispatchFallThrough(workflow_type) ==
    IF workflow_type = "analysis_only" THEN "run_analysis_workflow"
    ELSE IF workflow_type = "pre_tutor" THEN "_run_graph_workflow"
    ELSE "run_full_workflow"
Dispatch(workflow_type) ==
    IF workflow_type = "problem_only" THEN "run_problem_workflow"
    ELSE IF workflow_type = "analysis_only" THEN "run_analysis_workflow"
    ELSE IF workflow_type = "pre_tutor" THEN "_run_graph_workflow"
    ELSE "run_full_workflow"

\* run_workflow: dispatch on the payload's workflow_type (default "full").
run_workflow ==
    /\ pc = "run_workflow"
    /\ LET workflow_type == IF payload.workflow_type = "" THEN "full"
                            ELSE payload.workflow_type
       IN
       /\ pc' = Dispatch(workflow_type)
       /\ payload' = IF workflow_type = "pre_tutor"
                     THEN [payload EXCEPT !.workflow_type = "pre_tutor"]
                     ELSE payload
    /\ UNCHANGED <<RunFrame, store, last_cache_hit, state, visited, calls,
                   cacheOps, response, error>>

\* run_full_workflow: force workflow_type to "full" and run the graph.
run_full_workflow ==
    /\ pc = "run_full_workflow"
    /\ payload' = [payload EXCEPT !.workflow_type = "full"]
    /\ pc' = "_run_graph_workflow"
    /\ UNCHANGED <<RunFrame, store, last_cache_hit, state, visited, calls,
                   cacheOps, response, error>>

\* run_analysis_workflow's precondition: the error it raises, "" when none.
MissingInputProblemOnly(p) ==
    IF ~Truthy(p.problem)
    THEN "HTTPException 400: problem is required for analysis workflow"
    ELSE ""
MissingInput(p) ==
    IF ~Truthy(p.problem)
    THEN "HTTPException 400: problem is required for analysis workflow"
    ELSE IF ~Truthy(p.student_attempt)
    THEN "HTTPException 400: student_attempt is required for analysis workflow"
    ELSE ""

\* run_analysis_workflow: both inputs are required, then run the graph.
run_analysis_workflow ==
    /\ pc = "run_analysis_workflow"
    /\ IF MissingInput(payload) # "" THEN
          /\ Fail(MissingInput(payload))
          /\ UNCHANGED payload
       ELSE
          /\ payload' = [payload EXCEPT !.workflow_type = "analysis_only"]
          /\ pc' = "_run_graph_workflow"
          /\ UNCHANGED <<response, error>>
    /\ UNCHANGED <<RunFrame, store, last_cache_hit, state, visited, calls,
                   cacheOps>>

\* The head of _run_graph_workflow and of run_learning_session: build the
\* state and hand it to the graph.
StartGraph(fn) ==
    /\ pc = fn
    /\ LET built == build_initial_state(payload) IN
       IF built.ok THEN
          /\ state' = built.state
          /\ pc' = EntryPoint
          /\ UNCHANGED <<response, error>>
       ELSE
          /\ Fail(built.error)
          /\ UNCHANGED state
    /\ UNCHANGED <<RunFrame, payload, store, last_cache_hit, visited, calls,
                   cacheOps>>

_run_graph_workflow == StartGraph("_run_graph_workflow")
run_learning_session == StartGraph("run_learning_session")

\* The graph reached END: the tail of run_learning_session (the sanitized
\* state) or of _run_graph_workflow (the formatted envelope).
ReturnFromGraph ==
    /\ pc = END
    /\ pc' = "done"
    /\ LET sanitized == sanitize_state(state)
           workflow_type == _workflow_type(state)
           current_step ==
               IF workflow_type \in {"problem_only", "pre_tutor"}
               THEN _derive_current_step(sanitized)
               ELSE IF DOMAIN sanitized # {} THEN "completed" ELSE "initialized"
       IN
       response' = IF entry = "run_learning_session"
                   THEN StateResponse(sanitized)
                   ELSE format_workflow_results(sanitized, workflow_type,
                                                current_step)
    /\ UNCHANGED <<RunFrame, payload, store, last_cache_hit, state, visited,
                   calls, cacheOps, error>>

\* What the Problem handler's reply can decode to.
HandlerReplies == ModelReplies

\* LLMClient.invoke wraps the handler exactly as invoke_chat wraps the model.
invoke(key, use_cache, reply) == invoke_chat(key, use_cache, reply)

\* run_problem_workflow: build the state, generate a problem through the
\* registered handler, store it as the problem and format the result.
run_problem_workflow ==
    /\ pc = "run_problem_workflow"
    /\ LET built == build_initial_state(payload) IN
       IF ~built.ok THEN
          /\ Fail(built.error)
          /\ UNCHANGED <<state, store, last_cache_hit, calls, cacheOps>>
       ELSE \E reply \in HandlerReplies :
          LET use_cache == ~built.state["metadata"].refresh_problem
              r == invoke(CacheKeyOf("Problem",
                                          <<Get(built.state, "grade_level"),
                                            Get(built.state, "difficulty")>>),
                          use_cache, reply)
              final == Merge(built.state, Delta("problem", r.value))
          IN
          /\ store' = r.store
          /\ last_cache_hit' = r.hit
          /\ calls' = IF r.called
                      THEN Append(calls, [site |-> "run_problem_workflow",
                                          reply |-> reply])
                      ELSE calls
          /\ cacheOps' = cacheOps
                \cup (IF r.probed THEN {<<"run_problem_workflow", "get">>} ELSE {})
                \cup (IF r.stored THEN {<<"run_problem_workflow", "set">>} ELSE {})
          /\ IF ~r.ok THEN
                /\ Fail("HTTPException 500: Error while generating problem")
                /\ state' = built.state
             ELSE IF ~IsDict(r.value) THEN
                /\ Fail("HTTPException 500: Problem generation returned invalid payload")
                /\ state' = built.state
             ELSE
                /\ state' = final
                /\ pc' = "done"
                /\ response' = format_workflow_results(sanitize_state(final),
                                   "problem_only", "problem_generated")
                /\ UNCHANGED error
    /\ UNCHANGED <<RunFrame, payload, visited>>

-----------------------------------------------------------------------------
(***************************************************************************)
(* Spec: a freshly constructed process serves one request.  The request is *)
(* a workflow_type plus at most MaxOptional departures from the default    *)
(* call (run_workflow with an otherwise empty payload, the cache enabled   *)
(* and empty).                                                             *)
(***************************************************************************)
MaxOptional == 2

WorkflowTypes == {"", "problem_only", "analysis_only", "pre_tutor"}

\* The cache an earlier default full run (and an earlier problem-only run) of
\* the same process leaves behind: one entry per call it made.
WarmStore ==
    LET grade == Str("text", "7th")
        difficulty == Str("text", "medium")
        disability == Str("text", "Dyslexia")
        problem == _normalize_payload("object")
        text == Str("text", problem.text)
        other == _normalize_payload("object_notext")
    IN
    << CacheEntry(CacheKeyOf("Problem", <<grade, difficulty>>), 0, problem),
       CacheEntry(CacheKeyOf("generate_problem", <<grade, difficulty>>), 0,
                  problem),
       CacheEntry(CacheKeyOf("simulate_attempt",
                                  <<disability, problem, Str("text", "")>>), 0,
                  other),
       CacheEntry(CacheKeyOf("analyze_attempt", <<disability, text, other>>),
                  0, other),
       CacheEntry(CacheKeyOf("strategies",
                                  <<disability, text, other, other>>), 0, other),
       CacheEntry(CacheKeyOf("tutor", <<disability, text, other, other>>),
                  0, other),
       CacheEntry(CacheKeyOf("consistency", <<problem, disability, other>>),
                  0, other) >>

Opt(dim, val) == [dim |-> dim, val |-> val]
Options ==
    << Opt("cache_enabled", FALSE),
       Opt("store", WarmStore),
       Opt("entry", "run_full_workflow"),
       Opt("entry", "run_problem_workflow"),
       Opt("entry", "run_analysis_workflow"),
       Opt("entry", "run_learning_session"),
       Opt("stop_after", "analysis"),
       Opt("stop_after", "strategies"),
       Opt("stop_after", "tutor"),
       Opt("stop_after", "consistency"),
       Opt("stop_after", "adaptive"),
       Opt("meta_workflow_type", "pre_tutor"),
       Opt("refresh_problem", TRUE),
       Opt("target_correctness", "likely_incorrect"),
       Opt("problem", Dict("payload", "supplied problem text")),
       Opt("problem", Str("text", "problem given as text")),
       Opt("problem", Str("blank", "")),
       Opt("student_attempt", Dict("payload", "")),
       Opt("student_attempt", EmptyDict),
       Opt("student_attempt", Str("json_obj", "{attempt}")),
       Opt("student_attempt", Str("json_arr", "[attempt]")),
       Opt("student_attempt", Str("text", "not json")),
       Opt("student_history", List("payload")),
       Opt("student_history", Str("json_arr", "[history]")),
       Opt("student_history", Str("json_obj", "{history}")),
       Opt("student_history", Str("text", "not json")),
       Opt("student_response", Str("text", "student response")),
       Opt("thought_analysis", Dict("payload", "")),
       Opt("strategies", Dict("payload", "")),
       Opt("tutor_session", Dict("payload", "")),
       Opt("consistency_report", Dict("payload", "")),
       Opt("adaptive_plan", Dict("payload", "")),
       Opt("disability_analysis", Dict("payload", "")) >>

\* The sets of at most n options, no two of them for the same field.
RECURSIVE Picks(_)
Picks(n) ==
    IF n = 0 THEN {{}}
    ELSE LET fewer == Picks(n - 1) IN
         fewer \cup
         UNION {{c \cup {i} : i \in {j \in 1..Len(Options) :
                                  \A x \in c : Options[x].dim # Options[j].dim}}
                : c \in fewer}

Chosen(c, dim, default) ==
    IF \E i \in c : Options[i].dim = dim
    THEN Options[CHOOSE i \in c : Options[i].dim = dim].val
    ELSE default

MakePayload(wt, c) ==
    [workflow_type |-> wt,
     metadata |-> [workflow_type |-> Chosen(c, "meta_workflow_type", ""),
                   stop_after |-> Chosen(c, "stop_after", ""),
                   refresh_problem |-> Chosen(c, "refresh_problem", FALSE),
                   target_correctness |-> Chosen(c, "target_correctness", "")],
     problem |-> Chosen(c, "problem", None),
     student_attempt |-> Chosen(c, "student_attempt", None),
     student_history |-> Chosen(c, "student_history", None),
     student_response |-> Chosen(c, "student_response", None),
     thought_analysis |-> Chosen(c, "thought_analysis", None),
     strategies |-> Chosen(c, "strategies", None),
     tutor_session |-> Chosen(c, "tutor_session", None),
     consistency_report |-> Chosen(c, "consistency_report", None),
     adaptive_plan |-> Chosen(c, "adaptive_plan", None),
     disability_analysis |-> Chosen(c, "disability_analysis", None)]

Init ==
    /\ now = 0
    /\ ttl_seconds = ClampTtl(DefaultTtl)
    /\ max_entries = ClampMaxEntries(DefaultMaxEntries)
    /\ lastOp = NoOp
    /\ written = [k \in CacheKeys |-> NotWritten]
    /\ audit = NoAudit
    /\ AuxIdle
    /\ last_cache_hit = FALSE
    /\ \E wt \in WorkflowTypes, c \in Picks(MaxOptional) :
          /\ cache_enabled = Chosen(c, "cache_enabled", TRUE)
          /\ store = Chosen(c, "store", << >>)
          /\ request = MakePayload(wt, c)
          /\ payload = MakePayload(wt, c)
          /\ entry = Chosen(c, "entry", "run_workflow")
          /\ pc = Chosen(c, "entry", "run_workflow")
    /\ state = EmptyMap
    /\ visited = << >>
    /\ calls = << >>
    /\ cacheOps = {}
    /\ response = NoResponse
    /\ error = ""

Next ==
    \/ run_workflow
    \/ run_full_workflow
    \/ run_problem_workflow
    \/ run_analysis_workflow
    \/ run_learning_session
    \/ _run_graph_workflow
    \/ generate_problem_step
    \/ simulate_attempt_step
    \/ analyze_attempt_step
    \/ strategies_step
    \/ tutor_step
    \/ consistency_step
    \/ adaptive_step
    \/ identify_step
    \/ ReturnFromGraph

Spec == Init /\ [][Next]_vars

-----------------------------------------------------------------------------
(***************************************************************************)
(* Properties of Spec                                                      *)
(***************************************************************************)
\* The chain as the specification lists it.
Chain == <<"generate_problem_step", "simulate_attempt_step",
           "analyze_attempt_step", "strategies_step", "tutor_step",
           "consistency_step", "adaptive_step", "identify_step">>
NodeIndex(n) == CHOOSE i \in 1..Len(Chain) : Chain[i] = n

\* The step a stop_after value names, as a position of the chain.
StopValues == {"analysis", "strategies", "tutor", "consistency", "adaptive"}
StopIndex(v) ==
    CASE v = "analysis" -> NodeIndex("analyze_attempt_step")
      [] v = "strategies" -> NodeIndex("strategies_step")
      [] v = "tutor" -> NodeIndex("tutor_step")
      [] v = "consistency" -> NodeIndex("consistency_step")
      [] v = "adaptive" -> NodeIndex("adaptive_step")

Built == "metadata" \in DOMAIN state
Invoked(n) == \E i \in 1..Len(visited) : visited[i].node = n
Called(n) == \E i \in 1..Len(calls) : calls[i].site = n
Probed(n) == <<n, "get">> \in cacheOps \/ <<n, "set">> \in cacheOps
DeltaOf(n) == visited[CHOOSE i \in 1..Len(visited) : visited[i].node = n].delta

\* C1: with stop_after set to one of analysis, strategies, tutor, consistency,
\* adaptive, every step that lies after that stop point in the chain returns
\* an empty delta and issues no model call.
C1_StopAfterGuard ==
    (Built /\ _stop_after(state) \in StopValues) =>
        \A n \in Nodes :
            (Invoked(n) /\ NodeIndex(n) > StopIndex(_stop_after(state))) =>
                (DeltaOf(n) = EmptyMap /\ ~Called(n))

\* C2 as stated: a payload whose workflow_type is problem_only never has the
\* simulate_attempt, analyze_attempt, strategies or tutor step invoked, nor a
\* model call issued by one of them, whichever entry point receives it.
SkippedByProblemOnly == {"simulate_attempt_step", "analyze_attempt_step",
                         "strategies_step", "tutor_step"}
C2_AnyEntryPoint ==
    request.workflow_type = "problem_only" =>
        \A n \in SkippedByProblemOnly : ~Invoked(n) /\ ~Called(n)

\* C2 as amended: a payload whose workflow_type is problem_only, received by
\* run_workflow or run_problem_workflow, never has the simulate_attempt,
\* analyze_attempt, strategies or tutor step invoked, nor a model call issued
\* by one of them.
C2_ProblemOnly ==
    (/\ request.workflow_type = "problem_only"
     /\ entry \in {"run_workflow", "run_problem_workflow"})
    => \A n \in SkippedByProblemOnly : ~Invoked(n) /\ ~Called(n)

\* A problem_only request through run_workflow that returned a generated
\* problem after one model call.
C2_Witness ==
    /\ request.workflow_type = "problem_only"
    /\ entry = "run_workflow"
    /\ pc = "done"
    /\ "generated_problem" \in DOMAIN response.results
    /\ Len(calls) = 1

\* C9: the steps run in the fixed order generate_problem, simulate_attempt,
\* analyze_attempt, strategies, tutor, consistency, adaptive_difficulty,
\* identify_disability, done; each at most once and one after the other.
C9_FixedOrder ==
    /\ Len(visited) <= Len(Chain)
    /\ \A i \in 1..Len(visited) : visited[i].node = Chain[i]
    /\ pc \in Nodes => pc = Chain[Len(visited) + 1]
    /\ pc = END => Len(visited) = Len(Chain)
    /\ (pc = "done" /\ visited # << >>) => Len(visited) = Len(Chain)

\* A run that went through all eight steps, six of them calling the model.
C9_Witness ==
    /\ pc = "done"
    /\ Len(visited) = Len(Chain)
    /\ Len(calls) >= 6

\* The result keys of the artifacts that the steps after strategies produce.
PostStrategyResults == {"tutor_session", "consistency_validation",
                        "adaptive_plan", "disability_analysis"}

\* C3 as stated: for every payload with workflow_type pre_tutor (handed to
\* run_workflow, which dispatches on it), whatever else it carries, state
\* construction sets metadata.stop_after to strategies, and the formatted
\* result includes the strategies artifact and none of tutor_session,
\* consistency_report, adaptive_plan, disability_analysis.
C3_EveryPayload ==
    (request.workflow_type = "pre_tutor" /\ entry = "run_workflow") =>
        /\ Built => _stop_after(state) = "strategies"
        /\ response.kind = "envelope" =>
              /\ "teaching_strategies" \in DOMAIN response.results
              /\ DOMAIN response.results \cap PostStrategyResults = {}

\* C3 as amended: for every pre_tutor payload that run_workflow serves and that
\* carries no metadata.stop_after of its own, state construction sets
\* metadata.stop_after to strategies; the formatted result holds none of
\* tutor_session, consistency_report, adaptive_plan, disability_analysis except
\* as the payload supplied them, and it holds the strategies artifact whenever
\* the strategies step produced a non-empty mapping.
C3_PreTutor ==
    (/\ request.workflow_type = "pre_tutor"
     /\ entry = "run_workflow"
     /\ request.metadata.stop_after = "")
    => /\ Built => _stop_after(state) = "strategies"
       /\ response.kind = "envelope" =>
             /\ \A k \in DOMAIN response.results \cap PostStrategyResults :
                   response.results[k] = request[ResultSource(k)]
             /\ (/\ Invoked("strategies_step")
                 /\ "strategies" \in DOMAIN DeltaOf("strategies_step")
                 /\ Truthy(DeltaOf("strategies_step")["strategies"]))
                => /\ "teaching_strategies" \in DOMAIN response.results
                   /\ response.results["teaching_strategies"]
                        = DeltaOf("strategies_step")["strategies"]

\* A pre_tutor run that produced strategies, reached the tutor step and
\* returned an envelope without a tutor session.
C3_Witness ==
    /\ request.workflow_type = "pre_tutor"
    /\ entry = "run_workflow"
    /\ request.metadata.stop_after = ""
    /\ pc = "done"
    /\ Called("strategies_step")
    /\ Invoked("tutor_step")
    /\ "teaching_strategies" \in DOMAIN response.results
    /\ DOMAIN response.results \cap PostStrategyResults = {}

\* C4 as stated: once an artifact field holds a value, seeded from the payload
\* or produced by a step, no later step replaces it with a different value;
\* the only exception is the problem when metadata.refresh_problem is set.
C4_WriteOnce ==
    [][\A f \in ArtifactFields \cap DOMAIN state :
          Truthy(state[f]) =>
              \/ f \in DOMAIN state' /\ state'[f] = state[f]
              \/ f = "problem" /\ state["metadata"].refresh_problem]_vars

\* An artifact field that some step of this run has written.
ProducedByStep(f) == \E i \in 1..Len(visited) : f \in DOMAIN visited[i].delta

\* C4 as amended: within one run of the chain, an artifact that a step
\* produced, a problem seeded from the payload and a non-empty student_attempt
\* seeded from the payload are never replaced by a later step with a different
\* value, with or without metadata.refresh_problem; the other seeded artifacts
\* may be replaced by the step that produces them.
C4_WriteOnceProduced ==
    [][\A f \in ArtifactFields \cap DOMAIN state :
          (\/ ProducedByStep(f)
           \/ f = "problem"
           \/ f = "student_attempt" /\ Truthy(state[f]))
          => (f \in DOMAIN state' /\ state'[f] = state[f])]_vars

\* A full run that kept the problem and the attempt of the payload while its
\* analysis step called the model.
C4_Witness ==
    /\ pc = "done"
    /\ Truthy(request.problem) /\ IsDict(request.problem)
    /\ Truthy(request.student_attempt) /\ IsDict(request.student_attempt)
    /\ Len(visited) = Len(Chain)
    /\ Called("analyze_attempt_step")
    /\ state["problem"] = request.problem
    /\ state["student_attempt"] = request.student_attempt

\* The mapping a supplied student_attempt stands for.
ParsedAttempt(a) == IF IsStr(a) THEN JsonLoads(a) ELSE a

\* C5 as stated: when the payload supplies a student_attempt, the
\* simulate_attempt step issues no model call, neither reads nor writes the
\* cache, and the student_attempt of the state equals the supplied attempt.
C5_AnySuppliedAttempt ==
    request.student_attempt # None =>
        /\ ~Called("simulate_attempt_step")
        /\ ~Probed("simulate_attempt_step")
        /\ Built => Get(state, "student_attempt")
                        = ParsedAttempt(request.student_attempt)

\* C5 as amended: when the payload supplies a non-empty student_attempt (a
\* non-empty mapping, or a string that is a non-empty JSON object), the
\* simulate_attempt step issues no model call, neither reads nor writes the
\* cache, and the student_attempt of the state, as analyze_attempt sees it and
\* as the run ends with it, equals the supplied mapping.
C5_SuppliedAttempt ==
    (\/ IsDict(request.student_attempt) /\ Truthy(request.student_attempt)
     \/ IsStr(request.student_attempt) /\ request.student_attempt.src = "json_obj")
    => /\ ~Called("simulate_attempt_step")
       /\ ~Probed("simulate_attempt_step")
       /\ Built => Get(state, "student_attempt")
                       = ParsedAttempt(request.student_attempt)

\* A completed run whose attempt arrived as a JSON object string: the
\* simulate step ran without calling the model, the analysis step called it.
C5_Witness ==
    /\ IsStr(request.student_attempt)
    /\ pc = "done"
    /\ Invoked("simulate_attempt_step")
    /\ ~Called("simulate_attempt_step")
    /\ Called("analyze_attempt_step")
    /\ state["student_attempt"] = JsonLoads(request.student_attempt)

\* The runs of the chain under workflow_type analysis_only.
AnalysisOnlyRun ==
    \/ /\ request.workflow_type = "analysis_only"
       /\ entry \in {"run_workflow", "run_learning_session"}
    \/ entry = "run_analysis_workflow"
\* The analysis workflow proper: run_analysis_workflow, called directly or
\* dispatched to by run_workflow.
AnalysisWorkflow ==
    \/ request.workflow_type = "analysis_only" /\ entry = "run_workflow"
    \/ entry = "run_analysis_workflow"
Lacks(v) == ~Truthy(v)
PastEntry == pc \notin {"run_workflow", "run_analysis_workflow",
                        "run_learning_session", "run_problem_workflow",
                        "_run_graph_workflow"}
MissingInputError ==
    {"HTTPException 400: problem is required for analysis workflow",
     "HTTPException 400: student_attempt is required for analysis workflow"}

\* C6 as stated: an analysis_only run whose payload lacks a problem or a
\* student_attempt fails with a missing-input error before any model call;
\* when both are supplied the generate_problem step issues no model call and
\* the problem of the final state equals the supplied problem.
C6_AnalysisOnly ==
    AnalysisOnlyRun =>
        IF Lacks(request.problem) \/ Lacks(request.student_attempt)
        THEN /\ calls = << >>
             /\ PastEntry => (pc = "failed" /\ error \in MissingInputError)
        ELSE /\ ~Called("generate_problem_step")
             /\ pc = "done" => Get(state, "problem") = request.problem

\* The problem state construction makes of a supplied one: a mapping as it
\* is, any text but blank wrapped as the mapping's problem, blank text nothing.
SeededProblem(v) ==
    IF IsDict(v) THEN v
    ELSE IF StripIsEmpty(v) THEN None
    ELSE Dict("wrapped", v.text)

\* C6 as amended: a run of run_analysis_workflow, called directly or reached
\* through run_workflow with workflow_type analysis_only, whose payload has no
\* non-empty problem or no non-empty student_attempt fails with a
\* missing-input error before any model call; when both are supplied the
\* generate_problem step issues no model call and the problem of the state is
\* the supplied problem as state construction normalised it.
C6_AnalysisWorkflow ==
    AnalysisWorkflow =>
        IF Lacks(request.problem) \/ Lacks(request.student_attempt)
        THEN /\ calls = << >>
             /\ visited = << >>
             /\ pc \notin {"run_workflow", "run_analysis_workflow"}
                   => (pc = "failed" /\ error \in MissingInputError)
        ELSE /\ ~Called("generate_problem_step")
             /\ Invoked("generate_problem_step")
                   => DeltaOf("generate_problem_step") = EmptyMap
             /\ Built => Get(state, "problem") = SeededProblem(request.problem)

\* An analysis run that completed on a problem given as text, and one that
\* failed for its missing attempt, are both reachable; this is the first.
C6_Witness ==
    /\ AnalysisWorkflow
    /\ IsStr(request.problem)
    /\ pc = "done"
    /\ Invoked("generate_problem_step")
    /\ Called("analyze_attempt_step")
    /\ state["problem"] = Dict("wrapped", request.problem.text)

\* What makes a step fail: a model call that raises or returns a non-mapping
\* (or, in generate_problem, an empty mapping), or a simulate_attempt step
\* that has neither an attempt nor a problem text.
RejectedReply(call) ==
    \/ call.reply \in {"raise", "array"}
    \/ call.site = "generate_problem_step" /\ call.reply = "empty_object"
StepFails ==
    \/ /\ Len(calls') = Len(calls) + 1
       /\ RejectedReply(calls'[Len(calls')])
    \/ /\ pc = "simulate_attempt_step"
       /\ pc' # pc
       /\ ~Truthy(Get(state, "student_attempt"))
       /\ ProblemText(Get(state, "problem")) = ""

\* C7: if a step fails (prerequisite missing, model call raises, result
\* rejected as empty or non-mapping) the run fails with an error and returns
\* no result envelope; after the failure no step executes and no model call
\* is issued.
C7_FailFast ==
    [][/\ StepFails => (pc' = "failed" /\ error' # "" /\ response' = NoResponse)
       /\ pc = "failed" => (/\ pc' = "failed"
                            /\ visited' = visited
                            /\ calls' = calls
                            /\ response' = NoResponse)
       /\ response'.kind # "none" => (pc' = "done" /\ error' = "")]_vars

\* A run that failed in its third step, on a reply that is not a mapping,
\* after two steps had produced their artifacts.
C7_Witness ==
    /\ pc = "failed"
    /\ Len(visited) = 3
    /\ Len(calls) = 3
    /\ calls[3].reply = "array"
    /\ "student_attempt" \in DOMAIN state
    /\ response = NoResponse
    /\ error # ""

\* A student_attempt string that is not a JSON object, or a student_history
\* string that is not a JSON array.
Malformed(p) ==
    \/ /\ IsStr(p.student_attempt)
       /\ ~(JsonDecodes(p.student_attempt) /\ IsDict(JsonLoads(p.student_attempt)))
    \/ /\ IsStr(p.student_history)
       /\ ~(JsonDecodes(p.student_history) /\ IsList(JsonLoads(p.student_history)))

\* C8: for every entry point, a payload whose student_attempt is a string that
\* is not a JSON object, or whose student_history is a string that is not a
\* JSON array, makes the run fail with an input error, with no model call and
\* no cache write.
C8_MalformedRejected ==
    Malformed(request) =>
        /\ calls = << >>
        /\ \A n \in Nodes \cup EntryPoints : <<n, "set">> \notin cacheOps
        /\ pc \notin Nodes \cup {END, "done"}

-----------------------------------------------------------------------------
(***************************************************************************)
(* SpecClient: one LLMClient serving a sequence of invoke_chat and invoke   *)
(* calls while the clock advances.  A call runs from its probe to its store *)
(* without another call in between: invoke_chat has no suspension point,    *)
(* and the handler invoke awaits calls the model synchronously.             *)
(***************************************************************************)
ChatKeys == {"k1"}
HandlerKeys == {"k2"}

InitClient ==
    /\ store = << >>
    /\ now = 0
    /\ \E raw \in TtlInputs : ttl_seconds = ClampTtl(raw)
    /\ \E raw \in MaxEntriesInputs : max_entries = ClampMaxEntries(raw)
    /\ lastOp = NoOp
    /\ written = [k \in CacheKeys |-> NotWritten]
    /\ audit = NoAudit
    /\ heap = EmptyHeap
    /\ pure = EmptyMap
    /\ cache_enabled \in BOOLEAN
    /\ last_cache_hit = FALSE
    /\ lastCall = NoCall
    /\ pc = "idle"
    /\ request = None
    /\ entry = ""
    /\ payload = None
    /\ state = EmptyMap
    /\ visited = << >>
    /\ calls = << >>
    /\ cacheOps = {}
    /\ response = NoResponse
    /\ error = ""

ClientFrame == <<ttl_seconds, max_entries, lastOp, audit, heap, pure,
                 cache_enabled, runVars>>

\* What a call leaves behind: the table, the hit flag, the record of the
\* call, and for each key the value last stored and still in the table.
Served(fn, target, key, use_cache, reply, r) ==
    /\ store' = r.store
    /\ last_cache_hit' = r.hit
    /\ lastCall' = [fn |-> fn, target |-> target, key |-> key,
                    use_cache |-> use_cache, reply |-> reply, ok |-> r.ok,
                    value |-> r.value, called |-> r.called, at |-> now]
    /\ written' = [k \in CacheKeys |->
                     IF k = key /\ r.stored THEN [val |-> r.value, at |-> now]
                     ELSE IF k \notin Keys(r.store) THEN NotWritten
                     ELSE written[k]]
    /\ UNCHANGED <<now, ClientFrame>>

\* await llm_client.invoke_chat(messages, model, temperature, use_cache)
CallChat(key, use_cache, reply) ==
    Served("invoke_chat", "", key, use_cache, reply,
           invoke_chat(key, use_cache, reply))

\* await llm_client.invoke(handler, *args, use_cache=use_cache)
CallHandler(key, use_cache, reply) ==
    Served("invoke", "", key, use_cache, reply,
           invoke(key, use_cache, reply))

\* The chat call of the simulate_attempt step for a problem with a text and
\* the given metadata.target_correctness: the step derives use_cache.
TargetCorrectness == {"", "likely_incorrect"}
AttemptKeys == ChatKeys
AttemptState(target) ==
    [problem |-> _normalize_payload("object"),
     metadata |-> [target_correctness |-> target]]
CallSimulateAttempt(target, key, reply) ==
    LET plan == _simulate_attempt_node(AttemptState(target)) IN
    /\ plan.kind = "call"
    /\ Served(plan.site, target, key, plan.use_cache, reply,
              invoke_chat(key, plan.use_cache, reply))

TickClient ==
    /\ now < MaxTime
    /\ now' = now + 1
    /\ UNCHANGED <<store, last_cache_hit, lastCall, written, ClientFrame>>

NextClient ==
    \/ \E key \in ChatKeys, use_cache \in BOOLEAN, reply \in ModelReplies :
          CallChat(key, use_cache, reply)
    \/ \E key \in HandlerKeys, use_cache \in BOOLEAN, reply \in HandlerReplies :
          CallHandler(key, use_cache, reply)
    \/ \E target \in TargetCorrectness, key \in AttemptKeys,
          reply \in ModelReplies :
          CallSimulateAttempt(target, key, reply)
    \/ TickClient

SpecClient == InitClient /\ [][NextClient]_vars

\* The table holds an entry for the key that has not expired.
Fresh(s, key, t) ==
    \E i \in 1..Len(s) :
        /\ s[i].key = key
        /\ (ttl_seconds = 0 \/ t - s[i].created_at <= ttl_seconds)
StoredValue(s, key) == s[CHOOSE i \in 1..Len(s) : s[i].key = key].payload

\* C15: with caching enabled and use_cache true, the model (or handler) is
\* called if and only if the table holds no unexpired entry for the key when
\* the call probes it; a hit returns the cached value; a miss calls the model
\* and, when the call returns, stores the normalized result under the key as
\* the most recent entry and returns it; an identical call made while that
\* entry is within its TTL and not pushed out returns the stored value without
\* a model call.  A call that raises stores nothing, and without caching the
\* table is not touched.
C15_CacheAside ==
    [][lastCall' # lastCall =>
        LET c == lastCall'
            caching == cache_enabled /\ c.use_cache
            fresh == Fresh(store, c.key, now)
        IN
        /\ caching => (c.called <=> ~fresh)
        /\ (caching /\ fresh) =>
              (c.ok /\ c.value = StoredValue(store, c.key) /\ last_cache_hit')
        /\ (caching /\ ~fresh /\ c.reply # "raise") =>
              /\ c.ok
              /\ store' # << >>
              /\ store'[Len(store')] = CacheEntry(c.key, now, c.value)
              /\ ~last_cache_hit'
        /\ (caching /\ written[c.key] # NotWritten
              /\ (ttl_seconds = 0 \/ now - written[c.key].at <= ttl_seconds)) =>
              (~c.called /\ c.value = written[c.key].val)
        /\ (c.called /\ c.reply = "raise") =>
              (~c.ok /\ \A i \in 1..Len(store') :
                           \E j \in 1..Len(store) : store'[i] = store[j])
        /\ ~caching => (c.called /\ store' = store)]_vars

\* A call answered from the cache at a later time than the call that stored
\* the value, after a call for another key had been stored in between.
C15_Witness ==
    /\ lastCall.fn = "invoke_chat"
    /\ lastCall.use_cache
    /\ ~lastCall.called
    /\ lastCall.ok
    /\ written[lastCall.key] # NotWritten
    /\ lastCall.value = written[lastCall.key].val
    /\ lastCall.at > written[lastCall.key].at
    /\ Len(store) = 2
    /\ \E i \in 1..Len(store) : store[i].created_at > written[lastCall.key].at

\* C27: a call for which caching is bypassed (use_cache false, the cache flag
\* of the process off, or the simulate_attempt step with target_correctness
\* likely_incorrect) neither probes nor modifies the cache: the model is
\* called, the table keeps its contents and its order, and what is returned
\* is the model's reply even when an entry is stored under the key.
C27_BypassLeavesCache ==
    [][lastCall' # lastCall =>
        LET c == lastCall'
            bypassed == \/ ~cache_enabled
                        \/ ~c.use_cache
                        \/ (c.fn = "simulate_attempt"
                               /\ c.target = "likely_incorrect")
        IN
        bypassed =>
           /\ c.called
           /\ store' = store
           /\ written' = written
           /\ c.ok <=> c.reply # "raise"
           /\ c.ok => c.value = _normalize_payload(c.reply)
           /\ last_cache_hit' = (~c.ok /\ last_cache_hit)]_vars

\* A simulate_attempt call with target_correctness likely_incorrect, made
\* with the cache on while an unexpired entry with another value was stored
\* under its key: the model was called and the entry is still there.
C27_Witness ==
    /\ cache_enabled
    /\ lastCall.fn = "simulate_attempt"
    /\ lastCall.target = "likely_incorrect"
    /\ lastCall.called
    /\ lastCall.ok
    /\ lastCall.at = now
    /\ Fresh(store, lastCall.key, now)
    /\ StoredValue(store, lastCall.key) # lastCall.value

-----------------------------------------------------------------------------
(***************************************************************************)
(* services/llm_client.py: key derivation.  A Python value is a record     *)
(* [tag, atom, items]: a leaf carries its text in atom (a number by its     *)
(* JSON text), a collection carries its members in items in iteration       *)
(* order, and a mapping carries one entry per key, tagged by the type of    *)
(* the key, in insertion order.                                             *)
(***************************************************************************)
PStr(t) == [tag |-> "str", atom |-> t, items |-> << >>]
PNum(t) == [tag |-> "num", atom |-> t, items |-> << >>]
PList(xs) == [tag |-> "list", atom |-> "", items |-> xs]
PTuple(xs) == [tag |-> "tuple", atom |-> "", items |-> xs]
PSet(xs) == [tag |-> "set", atom |-> "", items |-> xs]
PDict(es) == [tag |-> "dict", atom |-> "", items |-> es]
StrKey(k, v) == [tag |-> "strkey", atom |-> k, items |-> <<v>>]
IntKey(k, v) == [tag |-> "intkey", atom |-> k, items |-> <<v>>]

\* The strings the model sorts, in code point order; numbers sort as their
\* texts do here ("1" before "2").
CodePointOrder == <<"1", "2", "a", "args", "b", "content", "handler",
                    "kwargs", "messages", "model", "module", "role",
                    "temperature", "type">>
Rank(t) == CHOOSE i \in 1..Len(CodePointOrder) : CodePointOrder[i] = t

\* A variant that leaves the order as it finds it.
sorted_AsGiven(xs) == xs

\* sorted(...) of records with distinct atoms
RECURSIVE sorted(_)
sorted(xs) ==
    IF xs = << >> THEN << >>
    ELSE LET i == CHOOSE i \in 1..Len(xs) :
                     \A j \in 1..Len(xs) : Rank(xs[i].atom) <= Rank(xs[j].atom)
         IN <<xs[i]>> \o sorted([j \in 1..(Len(xs) - 1) |->
                                    IF j < i THEN xs[j] ELSE xs[j + 1]])

\* LLMClient._prepare_for_cache: a leaf as it is; a mapping with its keys in
\* sorted order, each key replaced by str(key); a list or a tuple as a list;
\* a set as the sorted list of its prepared members.
RECURSIVE _prepare_for_cache(_)
_prepare_for_cache(value) ==
    CASE value.tag \in {"str", "num"} -> value
      [] value.tag = "dict" ->
            LET es == sorted(value.items) IN
            PDict([i \in 1..Len(es) |->
                      StrKey(es[i].atom, _prepare_for_cache(es[i].items[1]))])
      [] value.tag \in {"list", "tuple"} ->
            PList([i \in 1..Len(value.items) |->
                      _prepare_for_cache(value.items[i])])
      [] OTHER ->
            PList(sorted([i \in 1..Len(value.items) |->
                      _prepare_for_cache(value.items[i])]))

RECURSIVE JoinComma(_)
JoinComma(ts) ==
    IF ts = << >> THEN ""
    ELSE IF Len(ts) = 1 THEN ts[1]
    ELSE ts[1] \o "," \o JoinComma(Tail(ts))

\* A variant of the serialization that writes a string without its quotes.
RECURSIVE json_dumps_Unquoted(_)
json_dumps_Unquoted(v) ==
    CASE v.tag \in {"str", "num"} -> v.atom
      [] v.tag = "dict" ->
            "{" \o JoinComma([i \in 1..Len(v.items) |->
                       "\"" \o v.items[i].atom \o "\":"
                       \o json_dumps_Unquoted(v.items[i].items[1])]) \o "}"
      [] OTHER ->
            "[" \o JoinComma([i \in 1..Len(v.items) |->
                       json_dumps_Unquoted(v.items[i])]) \o "]"

\* json.dumps(payload, sort_keys=True, separators=(",", ":")) of a prepared
\* value: strings quoted, numbers by their text, a mapping's entries in the
\* order of their keys.
RECURSIVE json_dumps(_)
json_dumps(v) ==
    CASE v.tag = "str" -> "\"" \o v.atom \o "\""
      [] v.tag = "num" -> v.atom
      [] v.tag = "dict" ->
            LET es == sorted(v.items) IN
            "{" \o JoinComma([i \in 1..Len(es) |->
                       "\"" \o es[i].atom \o "\":"
                       \o json_dumps(es[i].items[1])]) \o "}"
      [] OTHER ->
            "[" \o JoinComma([i \in 1..Len(v.items) |->
                       json_dumps(v.items[i])]) \o "]"

\* hashlib.sha256(...).hexdigest(), taken as injective: the digest stands
\* for the text it was taken of.
sha256(serialized) == serialized

\* LLMClient._make_cache_key(handler, args, kwargs)
_make_cache_key(handler, args, kwargs) ==
    sha256(json_dumps(PDict(<<
        StrKey("handler", PStr(handler.qualname)),
        StrKey("module", PStr(handler.module)),
        StrKey("args", _prepare_for_cache(args)),
        StrKey("kwargs", _prepare_for_cache(kwargs)) >>)))

\* LLMClient._make_messages_cache_key(messages, model, temperature)
_make_messages_cache_key(messages, model, temperature) ==
    sha256(json_dumps(PDict(<<
        StrKey("type", PStr("chat")),
        StrKey("messages", _prepare_for_cache(messages)),
        StrKey("model", model),
        StrKey("temperature", temperature) >>)))

-----------------------------------------------------------------------------
(***************************************************************************)
(* SpecKey: the keys of two calls, derived side by side.                    *)
(***************************************************************************)
Leaves == {PStr("a"), PStr("1"), PNum("1"), PNum("2")}

\* {"a": x, "b": y} written in either order
Both(x, y) == {PDict(<<StrKey("a", x), StrKey("b", y)>>),
               PDict(<<StrKey("b", y), StrKey("a", x)>>)}

FlatDicts == UNION {Both(x, y) : x \in {PStr("a"), PNum("1")},
                                 y \in {PStr("a"), PNum("1")}}
InnerDicts == Both(PStr("a"), PNum("1")) \cup Both(PStr("a"), PNum("2"))
NestedDicts == UNION {Both(d, PStr("a")) : d \in InnerDicts}
OtherKeys == {PDict(<<StrKey("1", PStr("a"))>>), PDict(<<IntKey("1", PStr("a"))>>)}
Collections == {PList(<<PNum("1"), PNum("2")>>), PList(<<PNum("2"), PNum("1")>>),
                PList(<<PNum("1")>>),
                PTuple(<<PNum("1"), PNum("2")>>),
                PSet(<<PNum("1"), PNum("2")>>), PSet(<<PNum("2"), PNum("1")>>)}
ListsOfDicts == {PList(<<d>>) : d \in InnerDicts}

ArgValues == Leaves \cup FlatDicts \cup NestedDicts \cup OtherKeys
             \cup Collections \cup ListsOfDicts
KwargValues == {PDict(<< >>)} \cup Both(PNum("1"), PNum("2"))

\* Callables by identity: the second and the third are two functions of one
\* qualified name in one module.
Handlers == {[id |-> "f1", qualname |-> "Problem",
              module |-> "app.services.openai_service"],
             [id |-> "f2", qualname |-> "make.<locals>.handler",
              module |-> "app.handlers"],
             [id |-> "f3", qualname |-> "make.<locals>.handler",
              module |-> "app.handlers"]}
NoHandler == [id |-> "", qualname |-> "", module |-> ""]

\* {"role": "user", "content": text} written in either order
Message(text) == {PDict(<<StrKey("role", PStr("user")), StrKey("content", PStr(text))>>),
                  PDict(<<StrKey("content", PStr(text)), StrKey("role", PStr("user"))>>)}
Messages == Message("p") \cup Message("q")
MessageLists == {PList(<<m>>) : m \in Messages}
                \cup {PList(<<m, n>>) : m \in Message("p"), n \in Messages}
Models == {PStr("gpt-4o"), PStr("gpt-4o-mini")}
Temperatures == {PNum("0"), PNum("0.7")}

HandlerCalls == {[fn |-> "invoke", handler |-> h, args |-> PTuple(<<v>>),
                  kwargs |-> kw, messages |-> PList(<< >>),
                  model |-> PStr(""), temperature |-> PNum("0")] :
                 h \in Handlers, v \in ArgValues, kw \in KwargValues}
ChatCalls == {[fn |-> "invoke_chat", handler |-> NoHandler,
               args |-> PTuple(<< >>), kwargs |-> PDict(<< >>),
               messages |-> ms, model |-> m, temperature |-> t] :
              ms \in MessageLists, m \in Models, t \in Temperatures}

InitKey ==
    /\ \E cs \in {HandlerCalls, ChatCalls} :
         \E x \in cs, y \in cs :
            pure = [x |-> x, y |-> y, key_x |-> "", key_y |-> ""]
    /\ pc = "call"
    /\ store = << >>
    /\ now = 0
    /\ ttl_seconds = ClampTtl(DefaultTtl)
    /\ max_entries = ClampMaxEntries(DefaultMaxEntries)
    /\ lastOp = NoOp
    /\ written = [k \in CacheKeys |-> NotWritten]
    /\ audit = NoAudit
    /\ heap = EmptyHeap
    /\ cache_enabled = TRUE
    /\ last_cache_hit = FALSE
    /\ lastCall = NoCall
    /\ request = None
    /\ entry = ""
    /\ payload = None
    /\ state = EmptyMap
    /\ visited = << >>
    /\ calls = << >>
    /\ cacheOps = {}
    /\ response = NoResponse
    /\ error = ""

PureFrame == <<cacheVars, audit, heap, lastCall, cache_enabled, last_cache_hit,
               request, entry, payload, state, visited, calls, cacheOps,
               response, error>>

\* invoke: cache_key = self._make_cache_key(handler, args, kwargs)
MakeCacheKey ==
    /\ pc = "call"
    /\ pure.x.fn = "invoke"
    /\ pure' = [pure EXCEPT
                  !.key_x = _make_cache_key(pure.x.handler, pure.x.args, pure.x.kwargs),
                  !.key_y = _make_cache_key(pure.y.handler, pure.y.args, pure.y.kwargs)]
    /\ pc' = "keyed"
    /\ UNCHANGED PureFrame

\* invoke_chat: cache_key = self._make_messages_cache_key(messages, model, temperature)
MakeMessagesCacheKey ==
    /\ pc = "call"
    /\ pure.x.fn = "invoke_chat"
    /\ pure' = [pure EXCEPT
                  !.key_x = _make_messages_cache_key(pure.x.messages, pure.x.model,
                                                     pure.x.temperature),
                  !.key_y = _make_messages_cache_key(pure.y.messages, pure.y.model,
                                                     pure.y.temperature)]
    /\ pc' = "keyed"
    /\ UNCHANGED PureFrame

NextKey == MakeCacheKey \/ MakeMessagesCacheKey

SpecKey == InitKey /\ [][NextKey]_vars

\* Two values with the same content: the same leaves, the same members in
\* the same places, and for a mapping (or a set) the same entries whatever
\* the order they were inserted in.
RECURSIVE SameContent(_, _)
SameContent(v, w) ==
    /\ v.tag = w.tag
    /\ v.atom = w.atom
    /\ Len(v.items) = Len(w.items)
    /\ IF v.tag \in {"dict", "set"}
       THEN \A i \in 1..Len(v.items) :
               \E j \in 1..Len(w.items) : SameContent(v.items[i], w.items[j])
       ELSE \A i \in 1..Len(v.items) : SameContent(v.items[i], w.items[i])

SameArguments(c, d) ==
    /\ c.fn = d.fn
    /\ SameContent(c.args, d.args)
    /\ SameContent(c.kwargs, d.kwargs)
    /\ SameContent(c.messages, d.messages)
    /\ c.model = d.model
    /\ c.temperature = d.temperature

\* A mapping two levels down, or inside a list.
RECURSIVE Depth(_)
Depth(v) ==
    IF v.items = << >> THEN 0
    ELSE 1 + Max(Depth(v.items[1]), Depth(v.items[Len(v.items)]))

\* C16: two calls that differ only in the insertion order of mapping keys, at
\* any depth of the positional arguments, the keyword arguments or the chat
\* messages, get equal keys from _make_cache_key and _make_messages_cache_key.
C16_OrderIndependent ==
    (pc = "keyed" /\ pure.x.handler = pure.y.handler
                  /\ SameArguments(pure.x, pure.y))
        => pure.key_x = pure.key_y

\* Two handler calls whose nested mappings were written in different orders,
\* with their keys derived.
C16_Witness ==
    /\ pc = "keyed"
    /\ pure.x.fn = "invoke"
    /\ pure.x.handler = pure.y.handler
    /\ SameArguments(pure.x, pure.y)
    /\ pure.x.args # pure.y.args
    /\ pure.x.kwargs # pure.y.kwargs
    /\ pure.x.args.items[1] \in NestedDicts
    /\ pure.x.args.items[1].items[1].atom # pure.y.args.items[1].items[1].atom
    /\ pure.key_x = pure.key_y

\* C17 as stated: two calls that differ in content (the handler, a leaf, a
\* mapping key, the length or order of a sequence, the messages, the model or
\* the temperature) get different keys, for all values built from primitives,
\* mappings, sequences and sets.
C17_ContentSensitive ==
    (pc = "keyed" /\ ~(pure.x.handler = pure.y.handler
                       /\ SameArguments(pure.x, pure.y)))
        => pure.key_x # pure.key_y

\* Built from strings, numbers, mappings with string keys, and lists.
RECURSIVE Plain(_)
Plain(v) ==
    /\ v.tag \in {"str", "num", "list", "dict", "strkey"}
    /\ \A i \in 1..Len(v.items) : Plain(v.items[i])

PlainCall(c) ==
    /\ \A i \in 1..Len(c.args.items) : Plain(c.args.items[i])
    /\ Plain(c.kwargs)
    /\ Plain(c.messages)

\* C17: two calls whose arguments are built from primitives, mappings with
\* string keys, and lists, and that differ in content (the handler's
\* qualified name or module, a leaf, a mapping key, the length or order of a
\* list, the messages, the model or the temperature), get different keys.
C17_ContentSensitivePlain ==
    (/\ pc = "keyed"
     /\ PlainCall(pure.x) /\ PlainCall(pure.y)
     /\ ~(/\ pure.x.handler.qualname = pure.y.handler.qualname
          /\ pure.x.handler.module = pure.y.handler.module
          /\ SameArguments(pure.x, pure.y)))
        => pure.key_x # pure.key_y

\* Two calls of one handler that differ in one leaf two levels down, the
\* string "1" against the number 1 apart, with different keys.
C17_Witness ==
    /\ pc = "keyed"
    /\ pure.x.fn = "invoke"
    /\ pure.x.handler = pure.y.handler
    /\ pure.x.kwargs = pure.y.kwargs
    /\ PlainCall(pure.x) /\ PlainCall(pure.y)
    /\ pure.x.args.items[1] \in NestedDicts
    /\ pure.y.args.items[1] \in NestedDicts
    /\ ~SameContent(pure.x.args, pure.y.args)
    /\ pure.key_x # pure.key_y

-----------------------------------------------------------------------------
(***************************************************************************)
(* C18: what the entry points hand back, under Spec.                        *)
(***************************************************************************)
InternalMetadataKeys == {"workflow_type", "stop_after", "cache_status",
                         "use_provided_problem"}

\* The metadata keys a response carries: those of the envelope's metadata,
\* and those of the metadata field of a state returned as it is.
ExposedMetadataKeys(resp) ==
    DOMAIN resp.metadata
    \cup (IF resp.kind = "state" /\ "metadata" \in DOMAIN resp.results
          THEN DOMAIN resp.results["metadata"] ELSE {})

\* C18: no response returned by run_workflow, run_full_workflow,
\* run_problem_workflow, run_analysis_workflow or run_learning_session exposes
\* the metadata keys workflow_type, stop_after, cache_status or
\* use_provided_problem; the only metadata it carries is grade_level,
\* difficulty and disability.
C18_NoInternalMetadata ==
    (pc = "done" /\ response.kind # "none") =>
        /\ ExposedMetadataKeys(response) \cap InternalMetadataKeys = {}
        /\ ExposedMetadataKeys(response)
              \subseteq {"grade_level", "difficulty", "disability"}

-----------------------------------------------------------------------------
(***************************************************************************)
(* SpecSanitize: sanitize_state applied to a state, and again to its        *)
(* result.                                                                  *)
(***************************************************************************)
SanitizeFields == {"problem", "thought_analysis", "strategies", "metadata"}
FieldValues == {None, Str("empty", ""), Str("text", "x"), EmptyDict, EmptyList,
                Dict("model", "generated problem text")}
MetadataKinds == {"none", "empty", "built"}
MetadataOf(kind) ==
    CASE kind = "none" -> None
      [] kind = "empty" -> EmptyMap
      [] OTHER -> [workflow_type |-> "full", stop_after |-> "",
                   refresh_problem |-> FALSE, target_correctness |-> "",
                   use_provided_problem |-> FALSE,
                   student_attempt_source |-> "", cache_status |-> {}]

InitSanitize ==
    /\ \E present \in SUBSET SanitizeFields, kind \in MetadataKinds,
          f \in [SanitizeFields \ {"metadata"} -> FieldValues] :
         pure = [s |-> [k \in present |->
                          IF k = "metadata" THEN MetadataOf(kind) ELSE f[k]],
                 out |-> EmptyMap, again |-> EmptyMap]
    /\ pc = "state"
    /\ store = << >>
    /\ now = 0
    /\ ttl_seconds = ClampTtl(DefaultTtl)
    /\ max_entries = ClampMaxEntries(DefaultMaxEntries)
    /\ lastOp = NoOp
    /\ written = [k \in CacheKeys |-> NotWritten]
    /\ audit = NoAudit
    /\ heap = EmptyHeap
    /\ cache_enabled = TRUE
    /\ last_cache_hit = FALSE
    /\ lastCall = NoCall
    /\ request = None
    /\ entry = ""
    /\ payload = None
    /\ state = EmptyMap
    /\ visited = << >>
    /\ calls = << >>
    /\ cacheOps = {}
    /\ response = NoResponse
    /\ error = ""

\* orchestrator.sanitize_state(final_state)
Sanitize ==
    /\ pc = "state"
    /\ pure' = [pure EXCEPT !.out = sanitize_state(pure.s)]
    /\ pc' = "sanitized"
    /\ UNCHANGED PureFrame

\* sanitize_state of a state that sanitize_state returned
Resanitize ==
    /\ pc = "sanitized"
    /\ pure' = [pure EXCEPT !.again = sanitize_state(pure.out)]
    /\ pc' = "resanitized"
    /\ UNCHANGED PureFrame

NextSanitize == Sanitize \/ Resanitize

SpecSanitize == InitSanitize /\ [][NextSanitize]_vars

Sanitized == pc \in {"sanitized", "resanitized"}

\* Only keys of s, each with its value in s; metadata left out when empty.
KeysAndMetadata(s, out) ==
    /\ DOMAIN out \subseteq DOMAIN s
    /\ \A k \in DOMAIN out : out[k] = s[k]
    /\ ("metadata" \in DOMAIN s /\ ~MetadataTruthy(s["metadata"]))
          => "metadata" \notin DOMAIN out

\* C19 as stated: sanitize_state(s) contains only keys of s, each with its
\* value in s, no field whose value is absent or empty (empty string, empty
\* mapping, empty sequence), and no metadata when it is empty.
C19_NoEmptyField ==
    Sanitized =>
        /\ KeysAndMetadata(pure.s, pure.out)
        /\ \A k \in DOMAIN pure.out \ {"metadata"} : Truthy(pure.out[k])

\* C19: sanitize_state(s) contains only keys of s, each with its value in s,
\* no field whose value is None, and no metadata when it is empty; every
\* other field of s, an empty string, mapping or sequence included, is kept.
C19_NoAbsentField ==
    Sanitized =>
        /\ KeysAndMetadata(pure.s, pure.out)
        /\ \A k \in DOMAIN pure.out \ {"metadata"} : pure.out[k] # None
        /\ \A k \in DOMAIN pure.s \ {"metadata"} :
              pure.s[k] # None => k \in DOMAIN pure.out
        /\ ("metadata" \in DOMAIN pure.s /\ MetadataTruthy(pure.s["metadata"]))
              => "metadata" \in DOMAIN pure.out

\* A sanitized state that lost a None field and its empty metadata and kept
\* an empty mapping.
C19_Witness ==
    /\ pc = "sanitized"
    /\ DOMAIN pure.s = SanitizeFields
    /\ pure.s["problem"] = None
    /\ pure.s["thought_analysis"] = EmptyDict
    /\ ~MetadataTruthy(pure.s["metadata"])
    /\ DOMAIN pure.out = {"thought_analysis", "strategies"}
    /\ pure.out["thought_analysis"] = EmptyDict

\* C20: sanitize_state(sanitize_state(s)) equals sanitize_state(s).
C20_Idempotent ==
    pc = "resanitized" =>
        /\ DOMAIN pure.again = DOMAIN pure.out
        /\ \A k \in DOMAIN pure.out : pure.again[k] = pure.out[k]

\* A state sanitized twice whose first pass dropped a field and kept an
\* empty one and its metadata.
C20_Witness ==
    /\ pc = "resanitized"
    /\ DOMAIN pure.s = SanitizeFields
    /\ pure.s["strategies"] = None
    /\ pure.s["problem"] = Str("empty", "")
    /\ DOMAIN pure.out = SanitizeFields \ {"strategies"}
    /\ DOMAIN pure.again = DOMAIN pure.out
    /\ pure.again["problem"] = Str("empty", "")

-----------------------------------------------------------------------------
(***************************************************************************)
(* services/adaptive_difficulty.py: AdaptiveDifficultyManager.  A score is  *)
(* a number of hundredths, an average is a fraction [num, den] of          *)
(* hundredths, and thresholds are compared exactly (0.75 is 75).  A session *)
(* record is [kind, score, is_correct]: kind says whether                   *)
(* consistency_score is a number, missing or null, and is_correct is        *)
(* "yes", "no" or "absent".                                                 *)
(***************************************************************************)
Session(kind, score, is_correct) ==
    [kind |-> kind, score |-> score, is_correct |-> is_correct]

difficulty_levels == <<"easy", "medium", "hard">>

Frac(num, den) == [num |-> num, den |-> den]
\* fraction compared with a threshold in hundredths
AtLeast(f, t) == f.num >= t * f.den
AtMost(f, t) == f.num <= t * f.den
Below(f, t) == f.num < t * f.den

Min(a, b) == IF a <= b THEN a ELSE b

RECURSIVE SumOf(_)
SumOf(xs) == IF xs = << >> THEN 0 ELSE Head(xs) + SumOf(Tail(xs))

RECURSIVE MaxOf(_)
MaxOf(xs) == IF Len(xs) = 1 THEN xs[1] ELSE Max(xs[1], MaxOf(Tail(xs)))

\* session.get("consistency_score", 0.0)
RawScore(session) == IF session.kind = "number" THEN session.score ELSE 0

\* student_history[-5:]
LastFive(history) ==
    IF Len(history) <= 5 THEN history
    ELSE SubSeq(history, Len(history) - 4, Len(history))

\* min(1.0, None) raises TypeError
HasNullScore(sessions) == \E i \in 1..Len(sessions) : sessions[i].kind = "null"

\* _extract_metrics of a non-empty list of sessions with numeric scores
_extract_metrics(sessions) ==
    LET scores == [i \in 1..Len(sessions) |->
                      Max(0, Min(100, RawScore(sessions[i])))]
        explicit == {i \in 1..Len(sessions) : sessions[i].is_correct # "absent"}
        correct == {i \in explicit : sessions[i].is_correct = "yes"}
        avg == Frac(SumOf(scores), Len(scores))
    IN [avg_consistency |-> avg,
        accuracy |-> IF explicit # {}
                     THEN Frac(100 * Cardinality(correct), Cardinality(explicit))
                     ELSE avg,
        best_consistency |-> MaxOf(scores),
        sample_size |-> Len(sessions),
        explicit_accuracy_used |-> explicit # {}]

\* _compute_trend: the label
_compute_trend(sessions) ==
    LET scores == [i \in 1..Len(sessions) |-> RawScore(sessions[i])]
        n == Len(scores)
        midpoint == n \div 2
        early == SumOf(SubSeq(scores, 1, midpoint))
        late == SumOf(SubSeq(scores, midpoint + 1, n))
        \* (late / (n - midpoint) - early / midpoint) * midpoint * (n - midpoint)
        scaled == late * midpoint - early * (n - midpoint)
    IN IF n < 3 THEN "insufficient_data"
       ELSE IF scaled > 10 * midpoint * (n - midpoint) THEN "improving"
       ELSE IF scaled < -10 * midpoint * (n - midpoint) THEN "declining"
       ELSE "stable"

LevelIndex(current) ==
    CHOOSE i \in 1..Len(difficulty_levels) : difficulty_levels[i] = current

_choose_difficulty_Extremes(current, metrics, trend) ==
    LET current_index == LevelIndex(current)
        top == Len(difficulty_levels)
        avg_consistency == metrics.avg_consistency
        accuracy == metrics.accuracy
    IN
    IF /\ AtLeast(accuracy, 80) /\ AtLeast(avg_consistency, 75)
       /\ metrics.best_consistency >= 85
       /\ current_index < top
    THEN difficulty_levels[top]
    ELSE IF (AtMost(accuracy, 45) \/ AtMost(avg_consistency, 40))
            /\ current_index > 1
    THEN difficulty_levels[1]
    ELSE IF trend = "declining" /\ Below(avg_consistency, 60) /\ current_index > 1
    THEN difficulty_levels[current_index - 1]
    ELSE IF trend = "improving" /\ AtLeast(avg_consistency, 70) /\ current_index < top
    THEN difficulty_levels[current_index + 1]
    ELSE current

\* _choose_difficulty for a current difficulty among the levels
_choose_difficulty(current, metrics, trend) ==
    LET current_index == LevelIndex(current)
        top == Len(difficulty_levels)
        avg_consistency == metrics.avg_consistency
        accuracy == metrics.accuracy
    IN
    IF /\ AtLeast(accuracy, 80) /\ AtLeast(avg_consistency, 75)
       /\ metrics.best_consistency >= 85
       /\ current_index < top
    THEN difficulty_levels[current_index + 1]
    ELSE IF (AtMost(accuracy, 45) \/ AtMost(avg_consistency, 40))
            /\ current_index > 1
    THEN difficulty_levels[current_index - 1]
    ELSE IF trend = "declining" /\ Below(avg_consistency, 60) /\ current_index > 1
    THEN difficulty_levels[current_index - 1]
    ELSE IF trend = "improving" /\ AtLeast(avg_consistency, 70) /\ current_index < top
    THEN difficulty_levels[current_index + 1]
    ELSE current

\* _confidence_score, in hundredths
_confidence_score(history, metrics) ==
    Min(30 + 5 * Min(Len(history), 10)
           + (IF metrics.explicit_accuracy_used THEN 10 ELSE 0), 90)

NoMetrics == [avg_consistency |-> Frac(0, 1), accuracy |-> Frac(0, 1),
              best_consistency |-> 0, sample_size |-> 0,
              explicit_accuracy_used |-> FALSE]
NoReport == [ok |-> FALSE, error |-> "", recommended_difficulty |-> "",
             confidence |-> 0, trend |-> "", metrics |-> NoMetrics]

\* A variant that computes its metrics over the whole history.
calculate_next_difficulty_WholeHistory(student_history, current_difficulty) ==
    IF student_history = << >>
    THEN [NoReport EXCEPT !.ok = TRUE, !.recommended_difficulty = "medium",
                          !.confidence = 40, !.trend = "insufficient_data"]
    ELSE IF HasNullScore(student_history)
    THEN [NoReport EXCEPT !.error = "TypeError"]
    ELSE IF \A i \in 1..Len(difficulty_levels) :
                difficulty_levels[i] # current_difficulty
    THEN [NoReport EXCEPT !.error = "ValueError"]
    ELSE LET metrics == _extract_metrics(student_history)
             trend == _compute_trend(student_history)
         IN [ok |-> TRUE, error |-> "",
             recommended_difficulty |->
                 _choose_difficulty(current_difficulty, metrics, trend),
             confidence |-> _confidence_score(student_history, metrics),
             trend |-> trend, metrics |-> metrics]

\* calculate_next_difficulty: the report, or the exception raised on the
\* way (a null consistency_score in the last five sessions fails in
\* _extract_metrics, a current difficulty that is no level fails in
\* _choose_difficulty's index lookup).
calculate_next_difficulty(student_history, current_difficulty) ==
    IF student_history = << >>
    THEN [NoReport EXCEPT !.ok = TRUE, !.recommended_difficulty = "medium",
                          !.confidence = 40, !.trend = "insufficient_data"]
    ELSE LET recent_sessions == LastFive(student_history) IN
         IF HasNullScore(recent_sessions)
         THEN [NoReport EXCEPT !.error = "TypeError"]
         ELSE IF \A i \in 1..Len(difficulty_levels) :
                     difficulty_levels[i] # current_difficulty
         THEN [NoReport EXCEPT !.error = "ValueError"]
         ELSE LET metrics == _extract_metrics(recent_sessions)
                  trend == _compute_trend(recent_sessions)
              IN [ok |-> TRUE, error |-> "",
                  recommended_difficulty |->
                      _choose_difficulty(current_difficulty, metrics, trend),
                  confidence |-> _confidence_score(student_history, metrics),
                  trend |-> trend, metrics |-> metrics]

-----------------------------------------------------------------------------
(***************************************************************************)
(* SpecDifficulty: a history grows session by session, and the difficulty   *)
(* engine is asked for a recommendation at any point.                       *)
(***************************************************************************)
MaxHistory == 6

\* An out-of-range score with a correct answer, a missing score with a wrong
\* answer, two in-range scores without is_correct, and a null score.
SessionKinds == {Session("number", 150, "yes"), Session("missing", 0, "no"),
                 Session("number", 60, "absent"), Session("number", 85, "absent"),
                 Session("null", 0, "absent")}

StrongHistory == <<Session("number", 90, "yes"), Session("number", 92, "yes"),
                   Session("number", 88, "yes"), Session("number", 91, "yes"),
                   Session("number", 95, "yes")>>
WeakHistory == <<Session("number", 80, "absent"), Session("number", 30, "absent"),
                 Session("number", 20, "absent")>>

CurrentDifficulties == {"easy", "medium", "hard", "expert"}

\* Rising scores with the one judged record marked wrong.
RisingHistory == <<Session("number", 60, "absent"), Session("number", 85, "absent"),
                   Session("number", 90, "no")>>

InitDifficulty ==
    /\ \E h \in {<< >>, StrongHistory, WeakHistory, RisingHistory} :
          pure = [history |-> h, current |-> "", report |-> NoReport]
    /\ pc = "history"
    /\ store = << >>
    /\ now = 0
    /\ ttl_seconds = ClampTtl(DefaultTtl)
    /\ max_entries = ClampMaxEntries(DefaultMaxEntries)
    /\ lastOp = NoOp
    /\ written = [k \in CacheKeys |-> NotWritten]
    /\ audit = NoAudit
    /\ heap = EmptyHeap
    /\ cache_enabled = TRUE
    /\ last_cache_hit = FALSE
    /\ lastCall = NoCall
    /\ request = None
    /\ entry = ""
    /\ payload = None
    /\ state = EmptyMap
    /\ visited = << >>
    /\ calls = << >>
    /\ cacheOps = {}
    /\ response = NoResponse
    /\ error = ""

\* The caller's history gains the record of one more session.
AppendSession(session) ==
    /\ pc = "history"
    /\ Len(pure.history) < MaxHistory
    /\ pure' = [pure EXCEPT !.history = Append(@, session)]
    /\ UNCHANGED <<pc, PureFrame>>

\* adaptive_manager.calculate_next_difficulty(history, current_difficulty)
Calculate(current) ==
    /\ pc = "history"
    /\ pure' = [pure EXCEPT
                  !.current = current,
                  !.report = calculate_next_difficulty(pure.history, current)]
    /\ pc' = "calculated"
    /\ UNCHANGED PureFrame

NextDifficulty ==
    \/ \E session \in SessionKinds : AppendSession(session)
    \/ \E current \in CurrentDifficulties : Calculate(current)

SpecDifficulty == InitDifficulty /\ [][NextDifficulty]_vars

\* The claim's own reading of the metrics: averages over the last five
\* records at most, scores clamped to [0, 1], accuracy from is_correct where
\* any record carries it and from the average score otherwise.
Recent(h) == [i \in 1..Min(5, Len(h)) |-> h[Len(h) - Min(5, Len(h)) + i]]
Clamped(x) == IF x.kind # "number" \/ x.score < 0 THEN 0
              ELSE IF x.score > 100 THEN 100 ELSE x.score
ScoreSum(h) == SumOf([i \in 1..Len(h) |-> Clamped(h[i])])
BestScore(h) == CHOOSE b \in {Clamped(h[i]) : i \in 1..Len(h)} :
                    \A i \in 1..Len(h) : Clamped(h[i]) <= b
Judged(h) == {i \in 1..Len(h) : h[i].is_correct # "absent"}
Right(h) == {i \in 1..Len(h) : h[i].is_correct = "yes"}
\* accuracy >= t / 100 and accuracy <= t / 100
AccuracyAtLeast(h, t) ==
    IF Judged(h) # {} THEN 100 * Cardinality(Right(h)) >= t * Cardinality(Judged(h))
    ELSE ScoreSum(h) >= t * Len(h)
AccuracyAtMost(h, t) ==
    IF Judged(h) # {} THEN 100 * Cardinality(Right(h)) <= t * Cardinality(Judged(h))
    ELSE ScoreSum(h) <= t * Len(h)

Up(level) == IF level = "easy" THEN "medium" ELSE "hard"
Down(level) == IF level = "hard" THEN "medium" ELSE "easy"

\* The first matching rule of (a) .. (e).
FirstRule(h, level, trend) ==
    IF /\ AccuracyAtLeast(h, 80) /\ ScoreSum(h) >= 75 * Len(h)
       /\ BestScore(h) >= 85 /\ level # "hard"
    THEN [rule |-> "a", level |-> Up(level)]
    ELSE IF (AccuracyAtMost(h, 45) \/ ScoreSum(h) <= 40 * Len(h)) /\ level # "easy"
    THEN [rule |-> "b", level |-> Down(level)]
    ELSE IF trend = "declining" /\ ScoreSum(h) < 60 * Len(h) /\ level # "easy"
    THEN [rule |-> "c", level |-> Down(level)]
    ELSE IF trend = "improving" /\ ScoreSum(h) >= 70 * Len(h) /\ level # "hard"
    THEN [rule |-> "d", level |-> Up(level)]
    ELSE [rule |-> "e", level |-> level]

Calculated == pc = "calculated" /\ pure.report.ok

\* C21: for an empty history the report recommends medium with confidence
\* 0.4 and trend insufficient_data whatever the current difficulty; for a
\* non-empty history the recommended difficulty is the outcome of the first
\* matching rule of (a) .. (e), with metrics over the last five records at
\* most; five records scored 0.9, 0.92, 0.88, 0.91, 0.95, all correct, at
\* medium give hard, and records scored 0.8, 0.3, 0.2 at medium give easy.
C21_DifficultyDecision ==
    /\ (pc = "calculated" /\ pure.history = << >>) =>
          /\ pure.report.ok
          /\ pure.report.recommended_difficulty = "medium"
          /\ pure.report.confidence = 40
          /\ pure.report.trend = "insufficient_data"
    /\ (Calculated /\ pure.history # << >>) =>
          pure.report.recommended_difficulty
             = FirstRule(Recent(pure.history), pure.current, pure.report.trend).level
    /\ (Calculated /\ pure.current = "medium") =>
          /\ pure.history = StrongHistory
                => pure.report.recommended_difficulty = "hard"
          /\ pure.history = WeakHistory
                => pure.report.recommended_difficulty = "easy"

\* A recommendation by rule (d) over a history of six records whose first
\* record, were it counted, would have kept the level unchanged.
C21_Witness ==
    /\ Calculated
    /\ Len(pure.history) = 6
    /\ pure.current = "easy"
    /\ FirstRule(Recent(pure.history), pure.current, pure.report.trend).rule = "d"
    /\ FirstRule(pure.history, pure.current, _compute_trend(pure.history)).rule = "e"
    /\ pure.report.recommended_difficulty = "medium"

\* C24, for the difficulty engine: whatever the records' fields and whatever
\* the current difficulty, calculate_next_difficulty returns a report.
C24_NeverRaises ==
    pc = "calculated" => pure.report.ok

-----------------------------------------------------------------------------
(***************************************************************************)
(* services/consistency_validator.py.  The validator reads its attempt only *)
(* through counts and tests of its text, so an attempt is the record of     *)
(* those: thought ("absent", "short": at most 20 characters, "long"), the   *)
(* number of steps and of steps longer than 10 characters, whether          *)
(* disability_impact is filled, whether a final answer can be extracted,    *)
(* whether it occurs among the numbers of the steps, whether a step holds   *)
(* an operation, whether the answer is within half of the expected one,     *)
(* and how many expected, unexpected and error patterns the text contains.  *)
(* A score is a whole number of 360ths.                                     *)
(***************************************************************************)
Units(num, den) == (360 * num) \div den

\* len(patterns["expected_behaviors"]), len(patterns["unexpected_behaviors"])
\* and len(error_patterns.get(disability, []))
PatternCounts(disability) ==
    CASE disability = "Dyslexia" -> [expected |-> 10, unexpected |-> 4, errors |-> 5]
      [] disability = "Dysgraphia" -> [expected |-> 6, unexpected |-> 3, errors |-> 0]
      [] OTHER -> [expected |-> 5, unexpected |-> 5, errors |-> 0]

check_step_answer_consistency(a) ==
    IF a.steps = 0 \/ ~a.answer THEN 0
    ELSE IF a.answer_in_steps THEN Units(1, 1) ELSE Units(3, 10)

\* validate_disability_behavior:
\*   min(1.0, base_score + expected_score - unexpected_penalty)
validate_disability_behavior(disability, a) ==
    LET n == PatternCounts(disability)
        expected_score == Min(Units(1, 1),
                              Units(10 * a.expected_matches, Max(10, 3 * n.expected)))
        unexpected_penalty == Min(Units(1, 2),
                                  Units(2 * a.unexpected_matches, Max(2, n.unexpected)))
        base_score == IF a.expected_matches > 0 THEN Units(3, 10) ELSE Units(1, 10)
    IN Min(Units(1, 1), base_score + expected_score - unexpected_penalty)

validate_mathematical_reasoning(a) ==
    IF a.steps = 0 \/ ~a.answer THEN 0
    ELSE Units((IF a.has_operations THEN 1 ELSE 0)
               + (IF a.steps >= 2 THEN 1 ELSE 0)
               + (IF a.reasonable_answer THEN 1 ELSE 0), 3)

validate_error_patterns(disability, a) ==
    IF disability = "No disability"
    THEN Max(0, Units(1, 1) - a.error_hits * Units(2, 10))
    ELSE IF PatternCounts(disability).errors > 0
    THEN Min(Units(1, 1), Units(a.error_hits, PatternCounts(disability).errors))
    ELSE Units(1, 2)

validate_response_completeness(a) ==
    LET present == (IF a.thought # "absent" THEN 1 ELSE 0)
                   + (IF a.steps > 0 THEN 1 ELSE 0)
                   + (IF a.impact THEN 1 ELSE 0)
        completeness_score == Units(present, 3)
        structure_score ==
            (Units(a.meaningful_steps, Max(1, a.steps))
             + (IF a.thought = "long" THEN Units(1, 1) ELSE 0)) \div 2
    IN (completeness_score + structure_score) \div 2

CheckOrder == <<"step_answer_consistency", "disability_behavior",
                "mathematical_reasoning", "error_patterns", "completeness">>

\* The names of a sequence that pass a test, in their order.
RECURSIVE Select(_, _)
Select(names, keep) ==
    IF names = << >> THEN << >>
    ELSE (IF Head(names) \in keep THEN <<Head(names)>> ELSE << >>)
         \o Select(Tail(names), keep)

\* A variant that also advises on a score of exactly 0.5.
generate_recommendations_AtMostHalf(checks) ==
    Select(CheckOrder, {c \in DOMAIN checks : checks[c] <= Units(1, 2)})

\* generate_recommendations: one advisory per check scoring below 0.5,
\* named here by its check.
generate_recommendations(checks) ==
    Select(CheckOrder, {c \in DOMAIN checks : checks[c] < Units(1, 2)})

\* identify_critical_flags, each flag named by its check
identify_critical_flags_AtMost(checks) ==
    Select(<<"step_answer_consistency", "disability_behavior", "completeness">>,
           {c \in DOMAIN checks :
               \/ c = "step_answer_consistency" /\ checks[c] <= Units(3, 10)
               \/ c = "disability_behavior" /\ checks[c] < Units(2, 10)
               \/ c = "completeness" /\ checks[c] < Units(3, 10)})
identify_critical_flags(checks) ==
    Select(<<"step_answer_consistency", "disability_behavior", "completeness">>,
           {c \in DOMAIN checks :
               \/ c = "step_answer_consistency" /\ checks[c] < Units(3, 10)
               \/ c = "disability_behavior" /\ checks[c] < Units(2, 10)
               \/ c = "completeness" /\ checks[c] < Units(3, 10)})

\* validate_response_consistency: the report; the overall score is the
\* fraction sum(scores) / len(scores).
validate_response_consistency(disability, a) ==
    LET checks == [c \in {CheckOrder[i] : i \in 1..Len(CheckOrder)} |->
            CASE c = "step_answer_consistency" -> check_step_answer_consistency(a)
              [] c = "disability_behavior" -> validate_disability_behavior(disability, a)
              [] c = "mathematical_reasoning" -> validate_mathematical_reasoning(a)
              [] c = "error_patterns" -> validate_error_patterns(disability, a)
              [] OTHER -> validate_response_completeness(a)]
    IN [checks |-> checks,
        overall_consistency_score |->
            Frac(SumOf([i \in 1..Len(CheckOrder) |-> checks[CheckOrder[i]]]),
                 Len(CheckOrder)),
        recommendations |-> generate_recommendations(checks),
        flags |-> identify_critical_flags(checks)]

-----------------------------------------------------------------------------
(***************************************************************************)
(* SpecValidator: one attempt validated for one disability.                 *)
(***************************************************************************)
Disabilities == {"Dyslexia", "Dysgraphia", "No disability"}

Attempts ==
    {a \in [thought : {"absent", "short", "long"}, steps : 0..2,
            meaningful_steps : 0..2, impact : BOOLEAN, answer : BOOLEAN,
            answer_in_steps : BOOLEAN, has_operations : BOOLEAN,
            reasonable_answer : BOOLEAN, expected_matches : {0, 1, 3},
            unexpected_matches : 0..2, error_hits : {0, 1, 5}] :
        /\ a.meaningful_steps <= a.steps
        /\ a.answer_in_steps => (a.answer /\ a.steps > 0)
        /\ a.has_operations => a.steps > 0
        /\ a.reasonable_answer => a.answer
        /\ (a.thought = "absent" /\ a.steps = 0 /\ ~a.impact)
              => (a.expected_matches = 0 /\ a.unexpected_matches = 0
                  /\ a.error_hits = 0)}

NoValidation == [checks |-> [c \in {} |-> 0],
                 overall_consistency_score |-> Frac(0, 1),
                 recommendations |-> << >>, flags |-> << >>]

InitValidator ==
    /\ \E d \in Disabilities, a \in Attempts :
          pure = [disability |-> d, attempt |-> a, report |-> NoValidation]
    /\ pc = "attempt"
    /\ store = << >>
    /\ now = 0
    /\ ttl_seconds = ClampTtl(DefaultTtl)
    /\ max_entries = ClampMaxEntries(DefaultMaxEntries)
    /\ lastOp = NoOp
    /\ written = [k \in CacheKeys |-> NotWritten]
    /\ audit = NoAudit
    /\ heap = EmptyHeap
    /\ cache_enabled = TRUE
    /\ last_cache_hit = FALSE
    /\ lastCall = NoCall
    /\ request = None
    /\ entry = ""
    /\ payload = None
    /\ state = EmptyMap
    /\ visited = << >>
    /\ calls = << >>
    /\ cacheOps = {}
    /\ response = NoResponse
    /\ error = ""

\* validate_response_consistency(problem, disability, student_attempt, expected_answer)
Validate ==
    /\ pc = "attempt"
    /\ pure' = [pure EXCEPT
                  !.report = validate_response_consistency(pure.disability,
                                                           pure.attempt)]
    /\ pc' = "validated"
    /\ UNCHANGED PureFrame

NextValidator == Validate

SpecValidator == InitValidator /\ [][NextValidator]_vars

Scores == pure.report.checks

\* C22: each of the five checks returns a score in [0, 1], and
\* overall_consistency_score is the arithmetic mean of the five scores and
\* so lies in [0, 1] too.
C22_ScoresInRange ==
    pc = "validated" =>
        /\ DOMAIN Scores = {CheckOrder[i] : i \in 1..Len(CheckOrder)}
        /\ \A c \in DOMAIN Scores : 0 <= Scores[c] /\ Scores[c] <= Units(1, 1)
        /\ 5 * pure.report.overall_consistency_score.num
              = pure.report.overall_consistency_score.den
                * (Scores["step_answer_consistency"] + Scores["disability_behavior"]
                   + Scores["mathematical_reasoning"] + Scores["error_patterns"]
                   + Scores["completeness"])
        /\ AtLeast(pure.report.overall_consistency_score, 0)
        /\ AtMost(pure.report.overall_consistency_score, Units(1, 1))

\* C23: recommendations holds one advisory for each check scoring below 0.5
\* and for no other, in check order; flags holds a CRITICAL entry exactly for
\* step_answer_consistency below 0.3, disability_behavior below 0.2 and
\* completeness below 0.3.
C23_RecommendationsAndFlags ==
    pc = "validated" =>
        LET recs == pure.report.recommendations
            flags == pure.report.flags
        IN
        /\ \A c \in DOMAIN Scores :
              Cardinality({i \in 1..Len(recs) : recs[i] = c})
                 = IF 2 * Scores[c] < Units(1, 1) THEN 1 ELSE 0
        /\ \A i, j \in 1..Len(recs) :
              i < j => \E m, n \in 1..Len(CheckOrder) :
                          m < n /\ CheckOrder[m] = recs[i] /\ CheckOrder[n] = recs[j]
        /\ \A i, j \in 1..Len(flags) : i # j => flags[i] # flags[j]
        /\ {flags[i] : i \in 1..Len(flags)}
              = {c \in {"step_answer_consistency", "completeness"} :
                    10 * Scores[c] < 3 * Units(1, 1)}
                \cup {c \in {"disability_behavior"} :
                    10 * Scores[c] < 2 * Units(1, 1)}

\* A report with advisories for some checks and not others, one check at
\* exactly 0.5, and a flag for the behaviour check alone.
C23_Witness ==
    /\ pc = "validated"
    /\ pure.report.recommendations = <<"disability_behavior", "mathematical_reasoning">>
    /\ pure.report.flags = <<"disability_behavior">>
    /\ Scores["error_patterns"] = Units(1, 2)


-----------------------------------------------------------------------------
(***************************************************************************)
(* The progress step of a problem-only response (Spec)                     *)
(***************************************************************************)
\* The request asked for the problem_only workflow and was answered.
ProblemOnlyAnswered ==
    /\ pc = "done"
    /\ response.kind = "envelope"
    /\ response.workflow_type = "problem_only"

\* C29: the current_step reported for a problem_only workflow is the step
\* derived from the artifact fields populated in the resulting state, so a
\* payload that pre-supplies a later artifact reports that later step.
C29_DerivedCurrentStep ==
    ProblemOnlyAnswered
        => response.current_step = _derive_current_step(sanitize_state(state))

-----------------------------------------------------------------------------
(***************************************************************************)
(* Prerequisite guards (Spec)                                              *)
(***************************************************************************)
\* What each step needs to find in the state, as the specification lists it.
Prerequisites(n, st) ==
    CASE n \in {"analyze_attempt_step", "consistency_step"} ->
            Truthy(Get(st, "problem")) /\ Truthy(Get(st, "student_attempt"))
      [] n \in {"strategies_step", "tutor_step"} ->
            Truthy(Get(st, "thought_analysis"))
      [] n = "adaptive_step" -> Truthy(Get(st, "student_history"))
      [] n = "identify_step" ->
            /\ Truthy(Get(st, "student_response"))
            /\ IsDict(Get(st, "problem"))
            /\ Get(st, "problem").text # ""
      [] OTHER -> TRUE

\* The request supplied none of the artifacts.
Unseeded == \A f \in ArtifactFields : request[f] = None
Present(st, f) == Get(st, f) # None

\* C28: a step issues a model call (or touches the cache) only when its
\* prerequisites are in the state, and otherwise leaves the state as it is
\* and returns an empty delta; hence at the end of a successful run that was
\* started without artifacts, strategies or tutor_session present implies
\* thought_analysis present, and thought_analysis present implies problem and
\* student_attempt present.
C28_PrerequisiteGuards ==
    [][/\ \A n \in Nodes :
            (pc = n /\ pc' # n) =>
               /\ (calls' # calls \/ cacheOps' # cacheOps \/ store' # store)
                     => Prerequisites(n, state)
               /\ ~Prerequisites(n, state) =>
                     /\ visited' = Append(visited, [node |-> n,
                                                    delta |-> EmptyMap])
                     /\ state' = state
                     /\ pc' = Edge(n)
       /\ (pc' = "done" /\ pc # "done" /\ Unseeded) =>
            /\ Present(state', "strategies") => Present(state', "thought_analysis")
            /\ Present(state', "tutor_session") => Present(state', "thought_analysis")
            /\ Present(state', "thought_analysis") =>
                  Present(state', "problem") /\ Present(state', "student_attempt")
            /\ Truthy(Get(state', "strategies")) \/ Truthy(Get(state', "tutor_session"))
                  => Truthy(Get(state', "thought_analysis"))]_vars

\* A successful run without supplied artifacts that produced strategies and
\* a tutor session, called the model for the disability analysis, and
\* skipped the adaptive plan for want of a history.
C28_Witness ==
    /\ pc = "done"
    /\ Unseeded
    /\ Present(state, "strategies")
    /\ Present(state, "tutor_session")
    /\ Invoked("adaptive_step")
    /\ DeltaOf("adaptive_step") = EmptyMap
    /\ ~Called("adaptive_step")
    /\ ~Probed("adaptive_step")
    /\ Called("identify_step")

-----------------------------------------------------------------------------
(***************************************************************************)
(* services/openai_service.py: the Attempt handler (student-attempt        *)
(* generation with its one retry).  A final answer is a text; the texts    *)
(* that read as numbers carry their value in hundredths.                   *)
(***************************************************************************)
\* _parse_numeric_like: the value in hundredths, -1 for None.
_parse_numeric_like(s) ==
    CASE s = "42" -> 4200
      [] s = "42.1" -> 4210
      [] s = "45" -> 4500
      [] OTHER -> -1
\* str(s).strip().lower()
Lower(s) == IF s = "Two" THEN "two" ELSE s
Abs(x) == IF x < 0 THEN 0 - x ELSE x

\* _answers_equal: numbers within max(1e-6, 0.005 * |b|), otherwise the
\* texts compared without case.
_answers_equal(a, b) ==
    LET an == _parse_numeric_like(a)
        bn == _parse_numeric_like(b)
    IN
    IF an # -1 /\ bn # -1
    THEN 1000 * Abs(an - bn) <= 5 * Abs(bn)
    ELSE Lower(a) = Lower(b)

\* What one _call can come to: a JSON object with its final_answer ("" when
\* it has none), JSON of another type, or an exception.
AttemptReply(kind, final_answer) == [kind |-> kind, final_answer |-> final_answer]
NoReply == AttemptReply("none", "")
\* One _call: whether it carried the note, and what came back.
AttemptCall(note, reply) == [note |-> note, reply |-> reply]

Attempt_AcceptsSecond(expected_answer, first, second) ==
    IF first.kind = "raise"
    THEN [ok |-> FALSE, trace |-> <<AttemptCall(FALSE, first)>>,
          returned |-> NoReply]
    ELSE IF /\ expected_answer # ""
            /\ first.kind = "dict"
            /\ _answers_equal(first.final_answer, expected_answer)
    THEN IF second.kind = "raise"
         THEN [ok |-> FALSE,
               trace |-> <<AttemptCall(FALSE, first), AttemptCall(TRUE, second)>>,
               returned |-> NoReply]
         ELSE [ok |-> TRUE,
               trace |-> <<AttemptCall(FALSE, first), AttemptCall(TRUE, second)>>,
               returned |-> second]
    ELSE [ok |-> TRUE, trace |-> <<AttemptCall(FALSE, first)>>,
          returned |-> first]
\* openai_service.Attempt from the first _call on: the calls made and the
\* result returned (ok false: HTTPException 500).
Attempt(expected_answer, first, second) ==
    IF first.kind = "raise"
    THEN [ok |-> FALSE, trace |-> <<AttemptCall(FALSE, first)>>,
          returned |-> NoReply]
    ELSE IF /\ expected_answer # ""
            /\ first.kind = "dict"
            /\ _answers_equal(first.final_answer, expected_answer)
    THEN IF second.kind = "raise"
         THEN [ok |-> FALSE,
               trace |-> <<AttemptCall(FALSE, first), AttemptCall(TRUE, second)>>,
               returned |-> NoReply]
         ELSE IF /\ second.kind = "dict"
                 /\ ~_answers_equal(second.final_answer, expected_answer)
         THEN [ok |-> TRUE,
               trace |-> <<AttemptCall(FALSE, first), AttemptCall(TRUE, second)>>,
               returned |-> second]
         ELSE [ok |-> TRUE,
               trace |-> <<AttemptCall(FALSE, first), AttemptCall(TRUE, second)>>,
               returned |-> first]
    ELSE [ok |-> TRUE, trace |-> <<AttemptCall(FALSE, first)>>,
          returned |-> first]

(***************************************************************************)
(* SpecAttempt: the process serves one request, which is either a request  *)
(* of Spec or a call of the Attempt handler.                               *)
(***************************************************************************)
ExpectedAnswers == {"", "42", "Two"}
FinalAnswers == {"", "42", "42.1", "45", "two"}
AttemptReplies ==
    {AttemptReply("dict", a) : a \in FinalAnswers}
        \cup {AttemptReply("list", ""), AttemptReply("raise", "")}

InitAttempt ==
    \/ Init
    \/ /\ now = 0
       /\ ttl_seconds = ClampTtl(DefaultTtl)
       /\ max_entries = ClampMaxEntries(DefaultMaxEntries)
       /\ lastOp = NoOp
       /\ written = [k \in CacheKeys |-> NotWritten]
       /\ audit = NoAudit
       /\ heap = EmptyHeap
       /\ lastCall = NoCall
       /\ \E e \in ExpectedAnswers :
             pure = [expected_answer |-> e, ok |-> TRUE, trace |-> << >>,
                     returned |-> NoReply]
       /\ cache_enabled = TRUE
       /\ last_cache_hit = FALSE
       /\ store = << >>
       /\ request = MakePayload("", {})
       /\ payload = MakePayload("", {})
       /\ entry = "Attempt"
       /\ pc = "Attempt"
       /\ state = EmptyMap
       /\ visited = << >>
       /\ calls = << >>
       /\ cacheOps = {}
       /\ response = NoResponse
       /\ error = ""

\* await Attempt(disability, problem, target_correctness, expected_answer,
\* error_style): the handler runs to its return or to its HTTPException.
CallAttempt ==
    /\ pc = "Attempt"
    /\ \E first \in AttemptReplies, second \in AttemptReplies :
          LET r == Attempt(pure.expected_answer, first, second) IN
          /\ pure' = [pure EXCEPT !.ok = r.ok, !.trace = r.trace,
                                  !.returned = r.returned]
          /\ pc' = IF r.ok THEN "done" ELSE "failed"
          /\ error' = IF r.ok THEN ""
                      ELSE "HTTPException 500: Error while generating approach"
    /\ UNCHANGED <<cacheVars, audit, heap, lastCall, clientVars, request, entry,
                   payload, state, visited, calls, cacheOps, response>>

NextAttempt ==
    \/ CallAttempt
    \/ Next

SpecAttempt == InitAttempt /\ [][NextAttempt]_vars

\* The handler has returned or failed.
Attempted == entry = "Attempt" /\ pc \in {"done", "failed"}
\* A step of the graph other than the student-attempt step ran and was not a
\* no-op (it changed the state or failed).
OtherSteps == Nodes \ {"simulate_attempt_step"}
StepNotNoOp(n) ==
    /\ pc = n
    /\ pc' # n
    /\ (state' # state \/ pc' = "failed")

\* C25: the student-attempt generation issues at most two model calls; a
\* second call is made exactly when an expected answer is known and the
\* first result's final answer equals it; the second call carries the
\* instruction not to repeat that answer; and when a second call was made
\* its result is the one returned, whatever its final answer is.  Every
\* other step issues exactly one model call when it is not a no-op.
C25_SecondAccepted ==
    [][/\ Attempted' =>
            LET t == pure'.trace IN
            /\ Len(t) \in {1, 2}
            /\ ~t[1].note
            /\ Len(t) = 2 <=> (/\ pure'.expected_answer # ""
                               /\ t[1].reply.kind = "dict"
                               /\ t[1].reply.final_answer = pure'.expected_answer)
            /\ Len(t) = 2 => t[2].note
            /\ (Len(t) = 2 /\ t[2].reply.kind # "raise") =>
                  (pure'.ok /\ pure'.returned = t[2].reply)
       /\ pc = "simulate_attempt_step" => Len(calls') <= Len(calls) + 2
       /\ \A n \in OtherSteps :
            StepNotNoOp(n) =>
               /\ Len(calls') = Len(calls) + 1
               /\ calls'[Len(calls')].site = n]_vars

\* The final answers the handler takes for the expected one: numbers within
\* half a percent of it, and the same text in another case.
TakenForExpected ==
    {<<"42", "42">>, <<"42.1", "42">>, <<"two", "Two">>}

\* C25 as the code has it: the second call is made exactly when an expected
\* answer is known and the first result is an object whose final answer is
\* taken for it; the second result is returned only when it is an object
\* whose final answer is not taken for the expected one, otherwise the first
\* result is returned, and a call that fails fails the request; the
\* simulate_attempt step of the graph makes at most one call.  Every other
\* step that is not a no-op makes exactly one call through the client, which
\* is one model call unless the cache serves it.
C25_SecondIfDifferent ==
    [][/\ Attempted' =>
            LET t == pure'.trace
                e == pure'.expected_answer
                Taken(reply) == /\ reply.kind = "dict"
                                /\ <<reply.final_answer, e>> \in TakenForExpected
            IN
            /\ Len(t) \in {1, 2}
            /\ ~t[1].note
            /\ Len(t) = 2 <=> Taken(t[1].reply)
            /\ Len(t) = 2 => t[2].note
            /\ pure'.ok <=> t[Len(t)].reply.kind # "raise"
            /\ pure'.ok =>
                  pure'.returned =
                     IF /\ Len(t) = 2
                        /\ t[2].reply.kind = "dict"
                        /\ ~Taken(t[2].reply)
                     THEN t[2].reply
                     ELSE t[1].reply
       /\ pc = "simulate_attempt_step" => Len(calls') <= Len(calls) + 1
       /\ \A n \in OtherSteps :
            StepNotNoOp(n) =>
               \/ /\ Len(calls') = Len(calls) + 1
                  /\ calls'[Len(calls')].site = n
               \/ /\ calls' = calls
                  /\ pc' # "failed"
                  /\ last_cache_hit'
                  /\ <<n, "get">> \in cacheOps']_vars

\* The handler made its second call and returned the result of the first,
\* the second result being the expected answer again.
C25_Witness ==
    /\ Attempted
    /\ pure.ok
    /\ Len(pure.trace) = 2
    /\ pure.trace[2].reply.kind = "dict"
    /\ pure.trace[2].reply # pure.trace[1].reply
    /\ pure.returned = pure.trace[1].reply

-----------------------------------------------------------------------------
(***************************************************************************)
(* SpecShared: two sessions run the graph concurrently on the one client   *)
(* and cache of the process.  Every await inside a node completes without  *)
(* yielding to the event loop (the OpenAI client is synchronous), so a     *)
(* node, from its guard to its _record_cache, is one step, and sessions    *)
(* interleave between nodes.  pc, payload, request, state and visited are  *)
(* kept per session; calls lists the model calls of both.                  *)
(***************************************************************************)
Sessions == {"s1", "s2"}

\* The node functions by the name of their node.
PlanOf(node, st) ==
    CASE node = "generate_problem_step" -> _generate_problem_node(st)
      [] node = "simulate_attempt_step" -> _simulate_attempt_node(st)
      [] node = "analyze_attempt_step" -> _analyze_attempt_node(st)
      [] node = "strategies_step" -> _strategy_node(st)
      [] node = "tutor_step" -> _tutor_node(st)
      [] node = "consistency_step" -> _consistency_node(st)
      [] node = "adaptive_step" -> _adaptive_difficulty_node(st)
      [] node = "identify_step" -> _identify_disability_node(st)

\* The requests of the two sessions: the default full run, and the same with
\* target_correctness likely_incorrect, with a student_response, or with a
\* student_attempt supplied.
FirstOf(dim) ==
    CHOOSE j \in 1..Len(Options) :
        /\ Options[j].dim = dim
        /\ \A k \in 1..(j - 1) : Options[k].dim # dim
SharedPicks ==
    {{}} \cup {{FirstOf(dim)} : dim \in {"target_correctness", "student_response",
                                        "student_attempt"}}
SharedReplies(node) ==
    IF node = "generate_problem_step" THEN {"object", "empty_object", "raise"}
    ELSE IF node = "simulate_attempt_step" THEN {"object_notext", "raise"}
    ELSE IF node = "analyze_attempt_step"
    THEN {"object_notext", "empty_object", "array"}
    ELSE {"object_notext"}

InitShared ==
    /\ now = 0
    /\ ttl_seconds = ClampTtl(DefaultTtl)
    /\ max_entries = ClampMaxEntries(DefaultMaxEntries)
    /\ lastOp = NoOp
    /\ written = [k \in CacheKeys |-> NotWritten]
    /\ audit = NoAudit
    /\ AuxIdle
    /\ cache_enabled \in BOOLEAN
    /\ last_cache_hit = FALSE
    /\ store = << >>
    /\ \E c \in [Sessions -> SharedPicks] :
          /\ request = [s \in Sessions |-> MakePayload("", c[s])]
          /\ payload = [s \in Sessions |-> MakePayload("", c[s])]
          /\ state = [s \in Sessions |->
                        build_initial_state(MakePayload("", c[s])).state]
    /\ entry = "run_learning_session"
    /\ pc = [s \in Sessions |-> EntryPoint]
    /\ visited = [s \in Sessions |-> << >>]
    /\ calls = << >>
    /\ cacheOps = {}
    /\ response = NoResponse
    /\ error = ""

\* One node of session s runs to completion: RunNode on the session's own
\* state, with the client's flag read back by _record_cache.
SessionStep(s) ==
    LET node == pc[s]
        plan == PlanOf(node, state[s])
        Visit(delta) == [visited EXCEPT ![s] =
                            Append(@, [node |-> node, delta |-> delta])]
    IN
    /\ node \in Nodes
    /\ UNCHANGED <<now, ttl_seconds, max_entries, lastOp, written, audit,
                   auxVars, cache_enabled, request, entry, payload, response>>
    /\ IF plan.kind = "noop" THEN
          /\ pc' = [pc EXCEPT ![s] = Edge(node)]
          /\ visited' = Visit(EmptyMap)
          /\ UNCHANGED <<state, calls, cacheOps, store, last_cache_hit, error>>
       ELSE IF plan.kind = "return" THEN
          /\ pc' = [pc EXCEPT ![s] = Edge(node)]
          /\ state' = [state EXCEPT ![s] = Merge(@, Delta(plan.field, plan.value))]
          /\ visited' = Visit(Delta(plan.field, plan.value))
          /\ UNCHANGED <<calls, cacheOps, store, last_cache_hit, error>>
       ELSE IF plan.kind = "raise" THEN
          /\ pc' = [pc EXCEPT ![s] = "failed"]
          /\ error' = plan.error
          /\ visited' = Visit(EmptyMap)
          /\ UNCHANGED <<state, calls, cacheOps, store, last_cache_hit>>
       ELSE \E reply \in SharedReplies(node) :
          LET r == invoke_chat(plan.key, plan.use_cache, reply)
              accepted == r.ok /\ Accepted(plan, r.value)
          IN
          /\ store' = r.store
          /\ last_cache_hit' = r.hit
          /\ calls' = IF r.called
                      THEN Append(calls, [session |-> s, site |-> node,
                                          reply |-> reply])
                      ELSE calls
          /\ cacheOps' = cacheOps
                \cup (IF r.probed THEN {<<s, node, "get">>} ELSE {})
                \cup (IF r.stored THEN {<<s, node, "set">>} ELSE {})
          /\ IF accepted THEN
                /\ pc' = [pc EXCEPT ![s] = Edge(node)]
                /\ state' = [state EXCEPT ![s] =
                                Merge(_record_cache(@, plan.site, last_cache_hit'),
                                      Delta(plan.field, r.value))]
                /\ visited' = Visit(Delta(plan.field, r.value))
                /\ UNCHANGED error
             ELSE
                /\ pc' = [pc EXCEPT ![s] = "failed"]
                /\ error' = IF r.ok THEN plan.reject
                            ELSE "ValueError: Error calling OpenAI"
                /\ visited' = Visit(EmptyMap)
                /\ UNCHANGED state

NextShared == \E s \in Sessions : SessionStep(s)

SpecShared == InitShared /\ [][NextShared]_vars

\* The name under which a step records its cache status.
StepName(n) ==
    CASE n = "generate_problem_step" -> "generate_problem"
      [] n = "simulate_attempt_step" -> "simulate_attempt"
      [] n = "analyze_attempt_step" -> "analyze_attempt"
      [] n = "strategies_step" -> "strategies"
      [] n = "tutor_step" -> "tutor"
      [] n = "consistency_step" -> "consistency"
      [] n = "adaptive_step" -> "adaptive"
      [] n = "identify_step" -> "identify"
CacheStatus(st) == st["metadata"].cache_status
WithoutCacheStatus(st) == [st EXCEPT !["metadata"].cache_status = {}]
Payloads(s) == {s[i].payload : i \in 1..Len(s)}

\* C26: for every step that calls the client, what the session records in
\* its own metadata.cache_status under the step's name is whether that call
\* was served from the cache (no model call was made for it and the value is
\* one the table held), however the steps of the two sessions interleave; a
\* step records under its own name only and in its own session only, no-op
\* steps record nothing, and the recorded statuses have no part in deciding
\* what a step does.
C26_OwnCacheStatus ==
    [][\A s \in Sessions :
         (pc[s] \in Nodes /\ pc'[s] # pc[s]) =>
            LET n == pc[s]
                modelCalled == calls' # calls
                probed == <<s, n, "get">> \in cacheOps'
                completed == pc'[s] = Edge(n)
                before == CacheStatus(state[s])
                after == CacheStatus(state'[s])
            IN
            /\ \A t \in Sessions \ {s} : state'[t] = state[t] /\ pc'[t] = pc[t]
            /\ (completed /\ modelCalled) =>
                  /\ after = before \cup {<<StepName(n), FALSE>>}
                  /\ calls'[Len(calls')].session = s
                  /\ calls'[Len(calls')].site = n
            /\ (completed /\ ~modelCalled /\ probed) =>
                  /\ after = before \cup {<<StepName(n), TRUE>>}
                  /\ visited'[s][Len(visited'[s])].delta # EmptyMap
                  /\ \A f \in DOMAIN visited'[s][Len(visited'[s])].delta :
                        state'[s][f] \in Payloads(store)
            /\ (~modelCalled /\ ~probed) => after = before
            /\ ~completed => after = before
            /\ PlanOf(n, state[s]) = PlanOf(n, WithoutCacheStatus(state[s]))]_vars

\* Both sessions ran the same steps; the second recorded a hit for a step
\* the first had recorded a miss for, and afterwards a miss of its own while
\* the first session went on to be served from the cache.
C26_Witness ==
    /\ <<"generate_problem", FALSE>> \in CacheStatus(state["s1"])
    /\ <<"generate_problem", TRUE>> \in CacheStatus(state["s2"])
    /\ <<"simulate_attempt", FALSE>> \in CacheStatus(state["s2"])
    /\ <<"simulate_attempt", TRUE>> \in CacheStatus(state["s1"])
    /\ <<"analyze_attempt", TRUE>> \in CacheStatus(state["s2"])
    /\ Len(calls) >= 3

-----------------------------------------------------------------------------
(***************************************************************************)
(* What the steps leave alone (Spec)                                       *)
(***************************************************************************)
CallerFields == {"grade_level", "difficulty", "disability", "student_history"}
MetadataKeys == {"workflow_type", "stop_after", "refresh_problem",
                 "target_correctness", "use_provided_problem",
                 "student_attempt_source", "cache_status"}

\* C31: no step of a run changes metadata.workflow_type, the only metadata
\* key a step adds or modifies is cache_status, and grade_level, difficulty,
\* disability and student_history are never modified (nor added or removed)
\* by a step.
C31_StepsKeepInputs ==
    [][(pc \in Nodes /\ pc' # pc) =>
          /\ state'["metadata"].workflow_type = state["metadata"].workflow_type
          /\ DOMAIN state'["metadata"] = DOMAIN state["metadata"]
          /\ \A k \in MetadataKeys \ {"cache_status"} :
                state'["metadata"][k] = state["metadata"][k]
          /\ \A f \in CallerFields :
                /\ f \in DOMAIN state' <=> f \in DOMAIN state
                /\ Get(state', f) = Get(state, f)]_vars

\* A graph run that finished with a cache status recorded for three of its
\* steps, its workflow type a non-default one and the caller's history in
\* the state.
C31_Witness ==
    /\ pc = "done"
    /\ Built
    /\ state["metadata"].workflow_type = "pre_tutor"
    /\ Cardinality(state["metadata"].cache_status) >= 3
    /\ Present(state, "student_history")

-----------------------------------------------------------------------------
(***************************************************************************)
(* The trend of the recent records (SpecDifficulty)                        *)
(***************************************************************************)
\* The trend as the specification computes it, over clamped scores: the
\* difference of the two means, multiplied by both halves' lengths.
ClampedTrend(h) ==
    LET n == Len(h)
        midpoint == n \div 2
        early == SumOf([i \in 1..midpoint |-> Clamped(h[i])])
        late == SumOf([i \in 1..(n - midpoint) |-> Clamped(h[midpoint + i])])
        delta == late * midpoint - early * (n - midpoint)
        tenth == 10 * midpoint * (n - midpoint)
    IN IF n < 3 THEN "insufficient_data"
       ELSE IF delta > tenth THEN "improving"
       ELSE IF delta < 0 - tenth THEN "declining"
       ELSE "stable"

\* C32: the trend reported for a non-empty history is the trend of its last
\* five records at most: insufficient_data below 3 records, otherwise
\* improving iff the mean of the scores from the midpoint floor(n/2) on
\* exceeds the mean of the scores before it by more than 0.1, declining iff
\* it falls short of it by more than 0.1, stable otherwise, the scores being
\* the clamped scores that avg_consistency averages.
C32_TrendOverClamped ==
    (Calculated /\ pure.history # << >>)
        => pure.report.trend = ClampedTrend(Recent(pure.history))

-----------------------------------------------------------------------------
(***************************************************************************)
(* validate_mathematical_reasoning with its numbers.  What                 *)
(* _parse_numeric_like returns is a record: a number (here a whole one) or *)
(* None.                                                                    *)
(***************************************************************************)
Num(v) == [num |-> TRUE, v |-> v]
NotNum == [num |-> FALSE, v |-> 0]

\* `abs(student_num - expected_num) / expected_num < 0.5 if expected_num != 0
\* else True` when both are numbers, False otherwise.  The quotient by a
\* negative expected_num is at most zero.
reasonable_answer(student_num, expected_num) ==
    IF expected_num.num /\ student_num.num
    THEN IF expected_num.v # 0
         THEN IF expected_num.v > 0
              THEN 2 * Abs(student_num.v - expected_num.v) < expected_num.v
              ELSE TRUE
         ELSE TRUE
    ELSE FALSE

\* The attempt as validate_mathematical_reasoning reads it, and its result:
\* score, status and the three sub-checks.
ReasoningAttempt(steps, has_operations, answer, student_num, expected_num) ==
    [steps |-> steps, has_operations |-> has_operations, answer |-> answer,
     reasonable_answer |-> reasonable_answer(student_num, expected_num)]
ReasoningReport(a) ==
    LET score == validate_mathematical_reasoning(a) IN
    IF a.steps = 0 \/ ~a.answer
    THEN [score |-> score, status |-> "incomplete", has_operations |-> FALSE,
          has_progression |-> FALSE, reasonable_answer |-> FALSE]
    ELSE [score |-> score,
          status |-> IF 10 * score > 7 * Units(1, 1) THEN "good"
                     ELSE "needs_improvement",
          has_operations |-> a.has_operations,
          has_progression |-> a.steps >= 2,
          reasonable_answer |-> a.reasonable_answer]

(***************************************************************************)
(* SpecReasoning: one attempt's mathematical reasoning validated against   *)
(* one expected answer.                                                     *)
(***************************************************************************)
StudentValues == {-30, -12, -4, 0, 4, 12, 15, 30}
ExpectedValues == {-10, 0, 10}
\* The student's answer: none, a text that is no number, or a number.
StudentAnswers ==
    {[answer |-> FALSE, value |-> NotNum], [answer |-> TRUE, value |-> NotNum]}
        \cup {[answer |-> TRUE, value |-> Num(v)] : v \in StudentValues}
ExpectedAnswerValues == {NotNum} \cup {Num(v) : v \in ExpectedValues}
NoReasoning == [score |-> 0, status |-> "", has_operations |-> FALSE,
                has_progression |-> FALSE, reasonable_answer |-> FALSE]

InitReasoning ==
    /\ \E steps \in 0..2, ops \in BOOLEAN, s \in StudentAnswers,
          e \in ExpectedAnswerValues :
          /\ ops => steps > 0
          /\ pure = [steps |-> steps, has_operations |-> ops, student |-> s,
                     expected |-> e, report |-> NoReasoning]
    /\ pc = "attempt"
    /\ store = << >>
    /\ now = 0
    /\ ttl_seconds = ClampTtl(DefaultTtl)
    /\ max_entries = ClampMaxEntries(DefaultMaxEntries)
    /\ lastOp = NoOp
    /\ written = [k \in CacheKeys |-> NotWritten]
    /\ audit = NoAudit
    /\ heap = EmptyHeap
    /\ cache_enabled = TRUE
    /\ last_cache_hit = FALSE
    /\ lastCall = NoCall
    /\ request = None
    /\ entry = ""
    /\ payload = None
    /\ state = EmptyMap
    /\ visited = << >>
    /\ calls = << >>
    /\ cacheOps = {}
    /\ response = NoResponse
    /\ error = ""

\* validate_mathematical_reasoning(student_attempt, problem, expected_answer)
ValidateReasoning ==
    /\ pc = "attempt"
    /\ pure' = [pure EXCEPT !.report =
                  ReasoningReport(ReasoningAttempt(pure.steps, pure.has_operations,
                                                   pure.student.answer,
                                                   pure.student.value,
                                                   pure.expected))]
    /\ pc' = "validated"
    /\ UNCHANGED PureFrame

NextReasoning == ValidateReasoning

SpecReasoning == InitReasoning /\ [][NextReasoning]_vars

\* C33: for an attempt with steps and a final answer, the closeness sub-check
\* is true exactly when both answers are numbers and the expected one is
\* zero or |student - expected| / |expected| < 0.5, whatever the sign of the
\* expected value; the score is the number of true sub-checks (operations
\* present, at least 2 steps, closeness) divided by 3; and the status is
\* good only when all three hold.
C33_RelativeCloseness ==
    (pc = "validated" /\ pure.steps > 0 /\ pure.student.answer) =>
        LET s == pure.student.value
            e == pure.expected
            close == /\ s.num
                     /\ e.num
                     /\ (e.v = 0 \/ 2 * Abs(s.v - e.v) < Abs(e.v))
            count == (IF pure.has_operations THEN 1 ELSE 0)
                     + (IF pure.steps >= 2 THEN 1 ELSE 0)
                     + (IF close THEN 1 ELSE 0)
        IN
        /\ pure.report.reasonable_answer = close
        /\ 3 * pure.report.score = count * Units(1, 1)
        /\ pure.report.status = "good" => count = 3

-----------------------------------------------------------------------------
(***************************************************************************)
(* Rejected results in the cache (SpecShared)                              *)
(***************************************************************************)
\* What a step does not accept from the client: anything but a mapping, and
\* for generate_problem an empty mapping too.
Rejects(n, value) ==
    ~IsDict(value) \/ (n = "generate_problem_step" /\ ~Truthy(value))
\* The table holds, unexpired, a value under the key that step n rejects.
HoldsRejected(s, key, n) ==
    \E i \in 1..Len(s) :
        /\ s[i].key = key
        /\ (ttl_seconds = 0 \/ now - s[i].created_at <= ttl_seconds)
        /\ Rejects(n, s[i].payload)

\* C34: the normalized result is stored before the step validates it.  A
\* step whose model call returns a result that the step rejects fails and
\* leaves that result in the table under the call's key; a step whose call
\* finds such an entry unexpired is served from the cache, issues no model
\* call, and fails with the same error.
C34_RejectedStaysCached ==
    [][\A s \in Sessions :
         (pc[s] \in Nodes /\ pc'[s] # pc[s]) =>
            LET n == pc[s]
                plan == PlanOf(n, state[s])
                caching == cache_enabled /\ plan.use_cache
                replied == calls' # calls /\ calls'[Len(calls')].reply # "raise"
            IN
            /\ (plan.kind = "call" /\ caching /\ replied
                  /\ Rejects(n, _normalize_payload(calls'[Len(calls')].reply))) =>
                  /\ pc'[s] = "failed"
                  /\ error' = plan.reject
                  /\ HoldsRejected(store', plan.key, n)
                  /\ store'[Len(store')].payload
                        = _normalize_payload(calls'[Len(calls')].reply)
            /\ (plan.kind = "call" /\ caching
                  /\ HoldsRejected(store, plan.key, n)) =>
                  /\ calls' = calls
                  /\ pc'[s] = "failed"
                  /\ error' = plan.reject
                  /\ state' = state
                  /\ HoldsRejected(store', plan.key, n)]_vars

\* Both sessions failed at analyze_attempt with the step's error, and the
\* model was called for that step only once: the second session was served
\* the rejected result from the cache.
C34_Witness ==
    /\ \A s \in Sessions : pc[s] = "failed"
    /\ \A s \in Sessions :
          /\ visited[s] # << >>
          /\ visited[s][Len(visited[s])].node = "analyze_attempt_step"
    /\ error = "HTTPException 500: Thought analysis returned invalid payload"
    /\ Cardinality({i \in 1..Len(calls) : calls[i].site = "analyze_attempt_step"}) = 1
    /\ \A s \in Sessions : <<s, "analyze_attempt_step", "get">> \in cacheOps

-----------------------------------------------------------------------------
(***************************************************************************)
(* LLMClient.invoke around a handler that suspends (SpecFlight)            *)
(*                                                                         *)
(* invoke probes the cache, awaits the handler, and stores the normalized  *)
(* result after the await.  The await is where another caller of the same  *)
(* client may run; each caller here makes one call.                        *)
(***************************************************************************)
Callers == {"c1", "c2"}
FlightKeys == {"k1", "k2"}
FlightReplies == {"object", "object_notext", "raise"}
NoFlight == [key |-> "", use_cache |-> FALSE, cache_key |-> ""]

InitFlight ==
    /\ now = 0
    /\ ttl_seconds = ClampTtl(DefaultTtl)
    /\ max_entries = ClampMaxEntries(DefaultMaxEntries)
    /\ lastOp = NoOp
    /\ written = [k \in CacheKeys |-> NotWritten]
    /\ audit = NoAudit
    /\ AuxIdle
    /\ cache_enabled \in BOOLEAN
    /\ last_cache_hit = FALSE
    /\ store = << >>
    /\ pc = [c \in Callers |-> "idle"]
    /\ request = [c \in Callers |-> NoFlight]
    /\ response = [c \in Callers |-> None]
    /\ entry = "invoke"
    /\ payload = None
    /\ state = EmptyMap
    /\ visited = << >>
    /\ calls = << >>
    /\ cacheOps = {}
    /\ error = ""

\* invoke up to the await: derive the key and probe when caching applies;
\* a hit sets the flag and returns, a miss goes on to await the handler.
InvokeProbe(c) ==
    /\ pc[c] = "idle"
    /\ \E key \in FlightKeys, use_cache \in BOOLEAN :
          LET probing == cache_enabled /\ use_cache
              got == IF probing
                     THEN CacheGet(store, ttl_seconds, key, now)
                     ELSE [value |-> None, store |-> store]
              hit == probing /\ got.value # None
          IN
          /\ request' = [request EXCEPT ![c] =
                            [key |-> key, use_cache |-> use_cache,
                             cache_key |-> IF probing THEN key ELSE ""]]
          /\ store' = got.store
          /\ cacheOps' = cacheOps
                            \cup (IF probing THEN {<<c, key, "get">>} ELSE {})
                            \cup (IF hit THEN {<<c, key, "hit">>} ELSE {})
          /\ last_cache_hit' = IF hit THEN TRUE ELSE last_cache_hit
          /\ response' = IF hit THEN [response EXCEPT ![c] = got.value]
                         ELSE response
          /\ pc' = [pc EXCEPT ![c] = IF hit THEN "returned" ELSE "awaiting"]
    /\ UNCHANGED <<now, ttl_seconds, max_entries, lastOp, written, audit,
                   auxVars, cache_enabled, entry, payload, state, visited,
                   calls, error>>

\* invoke after the await: the handler has answered or raised; the answer
\* is normalized, the flag cleared, and the result stored under the key
\* derived before the await.
InvokeResume(c) ==
    /\ pc[c] = "awaiting"
    /\ \E reply \in FlightReplies :
          LET storing == request[c].cache_key # "" /\ cache_enabled
                            /\ request[c].use_cache
              normalized == _normalize_payload(reply)
          IN
          /\ calls' = Append(calls, [session |-> c, site |-> request[c].key,
                                     reply |-> reply])
          /\ IF reply = "raise"
             THEN /\ pc' = [pc EXCEPT ![c] = "raised"]
                  /\ UNCHANGED <<store, last_cache_hit, response, cacheOps>>
             ELSE /\ pc' = [pc EXCEPT ![c] = "returned"]
                  /\ last_cache_hit' = FALSE
                  /\ store' = IF storing
                              THEN CacheSet(store, max_entries,
                                            request[c].cache_key, normalized, now)
                              ELSE store
                  /\ cacheOps' = IF storing
                                 THEN cacheOps \cup {<<c, request[c].key, "set">>}
                                 ELSE cacheOps
                  /\ response' = [response EXCEPT ![c] = normalized]
    /\ UNCHANGED <<now, ttl_seconds, max_entries, lastOp, written, audit,
                   auxVars, cache_enabled, request, entry, payload, state,
                   visited, error>>

NextFlight == \E c \in Callers : InvokeProbe(c) \/ InvokeResume(c)

SpecFlight == InitFlight /\ [][NextFlight]_vars

\* The handler calls made so far by caller c.
CallsOf(c) == {i \in 1..Len(calls) : calls[i].session = c}
\* Both callers missed on the same key with caching on and both handlers
\* have answered.
BothAnswered(key) ==
    \A c \in Callers :
        /\ pc[c] = "returned"
        /\ request[c].cache_key = key
        /\ CallsOf(c) # {}

\* C35: there is no single-flight de-duplication.  A caller is spared its
\* handler call only by a result another caller has already stored, never
\* by a call still in flight; when two callers that missed on the same key have both had
\* their answer, the table holds exactly one entry for that key, with the
\* result of the call that answered last, and each caller has the result of
\* its own call.
C35_NoSingleFlight ==
    /\ \A c \in Callers :
          pc[c] \in {"returned", "raised"} =>
             /\ (CallsOf(c) = {}) <=> (<<c, request[c].key, "hit">> \in cacheOps)
             /\ <<c, request[c].key, "hit">> \in cacheOps =>
                   \E d \in Callers \ {c} :
                       <<d, request[c].key, "set">> \in cacheOps
    /\ \A c \in Callers :
          (pc[c] = "returned" /\ CallsOf(c) # {}) =>
             \A i \in CallsOf(c) : response[c] = _normalize_payload(calls[i].reply)
    /\ \A key \in FlightKeys :
          BothAnswered(key) =>
             /\ Len(calls) = 2
             /\ Cardinality({i \in 1..Len(store) : store[i].key = key}) = 1
             /\ \A i \in 1..Len(store) :
                   store[i].key = key =>
                      store[i].payload = _normalize_payload(calls[Len(calls)].reply)

\* Both callers missed on k1, the two handlers answered differently, and
\* the table holds the later answer while the first caller holds its own.
C35_Witness ==
    /\ BothAnswered("k1")
    /\ calls[1].reply # calls[2].reply
    /\ \E i \in 1..Len(store) :
          /\ store[i].key = "k1"
          /\ store[i].payload = response[calls[2].session]
          /\ store[i].payload # response[calls[1].session]

-----------------------------------------------------------------------------
(***************************************************************************)
(* The direction of the recommendation (SpecDifficulty)                    *)
(***************************************************************************)
\* The position of a level on the scale easy < medium < hard.
LevelRank(level) ==
    CASE level = "easy" -> 0
      [] level = "medium" -> 1
      [] level = "hard" -> 2
      [] OTHER -> 3
\* accuracy <= 0.45 or avg_consistency <= 0.4 over the records counted.
Struggling(h) == AccuracyAtMost(h, 45) \/ ScoreSum(h) <= 40 * Len(h)

C37_OneLevelAtMost ==
    (Calculated /\ pure.current \in {"easy", "medium", "hard"}) =>
        /\ pure.report.recommended_difficulty \in {"easy", "medium", "hard"}
        /\ LevelRank(pure.report.recommended_difficulty) - LevelRank(pure.current)
              \in {-1, 0, 1}

\* At hard with strong recent work (accuracy and scores high enough to
\* raise) the recommendation stays hard.
C37_Witness ==
    /\ Calculated
    /\ pure.history # << >>
    /\ pure.current = "hard"
    /\ AccuracyAtLeast(Recent(pure.history), 80)
    /\ ScoreSum(Recent(pure.history)) >= 75 * Len(Recent(pure.history))
    /\ BestScore(Recent(pure.history)) >= 85
    /\ pure.report.recommended_difficulty = "hard"

-----------------------------------------------------------------------------
(***************************************************************************)
(* A problem supplied with the request (Spec)                              *)
(***************************************************************************)
\* The request is served by run_problem_workflow.
ProblemWorkflow ==
    \/ entry = "run_problem_workflow"
    \/ entry = "run_workflow" /\ request.workflow_type = "problem_only"
\* The supplied problem is text that strips to nothing, and no attempt came
\* with it.
BlankProblemAlone ==
    /\ IsStr(request.problem)
    /\ StripIsEmpty(request.problem)
    /\ request.student_attempt = None
Ended == pc \in {"done", "failed"}
MissingProblemText == "HTTPException 400: Problem text missing for attempt simulation"

\* C38 as stated: with a non-null problem in the payload no model call
\* generates a problem, and when that problem is blank text and no
\* student_attempt was supplied the run ends in the missing-problem-text
\* failure of simulate_attempt without any model call.
C38_SuppliedProblemNeverGenerates ==
    request.problem # None =>
        /\ ~Called("generate_problem_step")
        /\ ~Called("run_problem_workflow")
        /\ (BlankProblemAlone /\ Ended) =>
              /\ pc = "failed"
              /\ error = MissingProblemText
              /\ calls = << >>

\* C38, amended: with a non-null problem in the payload the generate_problem
\* step of the graph issues no model call.  When the problem is blank text
\* and no student_attempt was supplied, a run outside the problem-only
\* workflow ends in failure without any model call, and if it entered the
\* graph the failure is the missing-problem-text error raised by
\* simulate_attempt.  The problem-only workflow does not run the graph: it
\* completes only after its own generation call or a cache hit for it.
C38_GraphNeverGenerates ==
    request.problem # None =>
        /\ ~Called("generate_problem_step")
        /\ (BlankProblemAlone /\ Ended /\ ~ProblemWorkflow) =>
              /\ pc = "failed"
              /\ calls = << >>
              /\ Invoked("generate_problem_step") =>
                    /\ error = MissingProblemText
                    /\ Len(visited) = 2
                    /\ visited[1].delta = EmptyMap
                    /\ visited[2].node = "simulate_attempt_step"
        /\ (ProblemWorkflow /\ pc = "done") =>
              /\ visited = << >>
              /\ \/ Called("run_problem_workflow")
                 \/ <<"run_problem_workflow", "get">> \in cacheOps /\ last_cache_hit

\* A pre-tutor run whose payload carried only blank problem text has failed
\* in simulate_attempt with no model call.
C38_Witness ==
    /\ BlankProblemAlone
    /\ request.workflow_type = "pre_tutor"
    /\ entry = "run_workflow"
    /\ pc = "failed"
    /\ error = MissingProblemText
    /\ Invoked("simulate_attempt_step")
    /\ "problem" \notin DOMAIN state
    /\ calls = << >>

-----------------------------------------------------------------------------
(***************************************************************************)
(* The CRITICAL flag for step/answer mismatch (SpecValidator)              *)
(***************************************************************************)
Flagged(c) == \E i \in 1..Len(pure.report.flags) : pure.report.flags[i] = c
Recommended(c) ==
    \E i \in 1..Len(pure.report.recommendations) : pure.report.recommendations[i] = c

\* C39: the CRITICAL flag for step/answer mismatch is raised exactly when
\* the step_answer_consistency score is 0.0, which is exactly when the steps
\* or the final answer are missing; an attempt whose final answer is present
\* but is not among the numbers of its steps scores 0.3, is not flagged, and
\* gets the corresponding recommendation.
C39_MismatchFlag ==
    pc = "validated" =>
        LET a == pure.attempt
            score == Scores["step_answer_consistency"]
        IN
        /\ Flagged("step_answer_consistency") <=> score = 0
        /\ score = 0 <=> (a.steps = 0 \/ ~a.answer)
        /\ (a.steps > 0 /\ a.answer /\ ~a.answer_in_steps) =>
              /\ 10 * score = 3 * Units(1, 1)
              /\ ~Flagged("step_answer_consistency")
              /\ Recommended("step_answer_consistency")

\* An attempt with steps and a final answer that none of the steps' numbers
\* matches: recommended, not flagged.
C39_Witness ==
    /\ pc = "validated"
    /\ pure.attempt.steps > 0
    /\ pure.attempt.answer
    /\ ~pure.attempt.answer_in_steps
    /\ Recommended("step_answer_consistency")
    /\ ~Flagged("step_answer_consistency")

-----------------------------------------------------------------------------
(***************************************************************************)
(* Termination (SpecLive)                                                  *)
(*                                                                         *)
(* The request's coroutine is resumed whenever it can take a step, and a   *)
(* model call returns or fails within the step that issued it: weak        *)
(* fairness of the next-step relation.                                     *)
(***************************************************************************)
\* The number of departures from the default call a request makes here.
MaxLiveOptional == 1

InitLive ==
    /\ now = 0
    /\ ttl_seconds = ClampTtl(DefaultTtl)
    /\ max_entries = ClampMaxEntries(DefaultMaxEntries)
    /\ lastOp = NoOp
    /\ written = [k \in CacheKeys |-> NotWritten]
    /\ audit = NoAudit
    /\ AuxIdle
    /\ last_cache_hit = FALSE
    /\ \E wt \in WorkflowTypes, c \in Picks(MaxLiveOptional) :
          /\ cache_enabled = Chosen(c, "cache_enabled", TRUE)
          /\ store = Chosen(c, "store", << >>)
          /\ request = MakePayload(wt, c)
          /\ payload = MakePayload(wt, c)
          /\ entry = Chosen(c, "entry", "run_workflow")
          /\ pc = Chosen(c, "entry", "run_workflow")
    /\ state = EmptyMap
    /\ visited = << >>
    /\ calls = << >>
    /\ cacheOps = {}
    /\ response = NoResponse
    /\ error = ""

SpecLive == InitLive /\ [][Next]_vars /\ WF_vars(Next)

Position(n) == CHOOSE i \in 1..Len(Chain) : Chain[i] = n
VisitsOf(n) == {i \in 1..Len(visited) : visited[i].node = n}
ModelCallsOf(n) == {i \in 1..Len(calls) : calls[i].site = n}

\* Control leaves a step only forwards.
Forward ==
    pc \in Nodes =>
        \/ pc' = "failed"
        \/ pc' = END
        \/ pc' \in Nodes /\ Position(pc') > Position(pc)

\* C40: every run terminates.  A run started from any payload eventually
\* reaches done or a failure; each of the eight steps is executed at most
\* once with at most one model call; and control leaves a step only for a
\* step later in the chain, the end of the graph, or a failure.
C40_Terminates ==
    /\ <>(pc \in {"done", "failed"})
    /\ [](\A n \in Nodes : /\ Cardinality(VisitsOf(n)) <= 1
                           /\ Cardinality(ModelCallsOf(n)) <= 1)
    /\ [][Forward]_vars

\* A run that executed all eight steps, each once, with model calls, and
\* finished.
C40_Witness ==
    /\ pc = "done"
    /\ \A n \in Nodes : Cardinality(VisitsOf(n)) = 1
    /\ Len(visited) = 8
    /\ Len(calls) >= 5
=============================================================================
